---- MODULE Spec2Model ----
(***************************************************************************)
(* State-machine model of the S3 bucket auditor.                           *)
(*                                                                         *)
(*   Spec       one call of Scanner.AuditBucket (internal/audit/report.go) *)
(*              with the helpers of internal/awsutils/s3.go and            *)
(*              internal/config/config.go.                                 *)
(*   SpecBatch  the batch program of main.go: auditBuckets fans out one    *)
(*              worker per bucket and waits for all of them.               *)
(*   SpecUtils  single calls of the helpers of internal/awsutils/s3.go and *)
(*              of config.GetMacieTimeout, each on inputs drawn from the   *)
(*              response sets below.                                       *)
(*                                                                         *)
(* Conventions.  A Go error is a sequence of message parts, nil is <<>>.   *)
(* A Go pointer is a set with at most one element, nil is {}.  A remote    *)
(* response is a record with the error and the output fields the code      *)
(* reads.  Time is counted in seconds and advances by one ticker period.   *)
(***************************************************************************)
EXTENDS Integers, Sequences, FiniteSets, TLC

\* ------------------------------------------------------------------ bounds
\* How many ticker periods the clock may run past the timeout deadline.
MaxOverrun == 1

\* How many ticks one audit may lose because the worker reaches its select
\* statement late (the ticker drops a tick that finds its channel full).
MaxDroppedTicks == 1

\* How many buckets the batch program audits.
NBuckets == 2

\* ------------------------------------------------------- program constants
\* time.NewTicker(30 * time.Second)
TickerPeriod == 30
\* defaultMacieTimeout = 40 * time.Minute, in minutes
DefaultMacieTimeoutMinutes == 40
\* time.Minute, in seconds
SecondsPerMinute == 60

Nil == <<>>

\* errors the providers may answer with
ProviderErr == <<"AccessDenied">>

\* macie2 types.JobStatus values
JobStatusRunning == "RUNNING"
JobStatusComplete == "COMPLETE"
JobStatusUserPaused == "USER_PAUSED"
JobStatusCancelled == "CANCELLED"
JobStatusPaused == "PAUSED"
JobStatusIdle == "IDLE"
JobStatuses ==
  {JobStatusRunning, JobStatusComplete, JobStatusUserPaused,
   JobStatusCancelled, JobStatusPaused, JobStatusIdle}

AllUsersURI == "http://acs.amazonaws.com/groups/global/AllUsers"
AuthenticatedUsersURI == "http://acs.amazonaws.com/groups/global/AuthenticatedUsers"
LogDeliveryURI == "http://acs.amazonaws.com/groups/s3/LogDelivery"

\* ------------------------------------------------------------ Go helpers
\* fmt.Errorf / fmt.Sprintf: the formatted text, part by part
Errorf(msg, args) == <<msg>> \o args

\* strings.Contains on part sequences
Contains(s, sub) ==
  \E i \in 0..(Len(s) - Len(sub)) : SubSeq(s, i + 1, i + Len(sub)) = sub

\* mutant: nil is true
ToBool_NilIsTrue(p) == FALSE \notin p

\* aws.ToBool: nil is false
ToBool(p) == TRUE \in p

Digits == {"0", "1", "2", "3", "4", "5", "6", "7", "8", "9"}

DigitVal(c) ==
  CASE c = "0" -> 0 [] c = "1" -> 1 [] c = "2" -> 2 [] c = "3" -> 3
    [] c = "4" -> 4 [] c = "5" -> 5 [] c = "6" -> 6 [] c = "7" -> 7
    [] c = "8" -> 8 [] c = "9" -> 9

RECURSIVE ParseDigits(_, _)
ParseDigits(s, acc) ==
  IF s = <<>> THEN acc ELSE ParseDigits(Tail(s), acc * 10 + DigitVal(Head(s)))

\* strconv.Atoi on a string given as its characters: an optional sign and
\* then one or more decimal digits; anything else is a syntax error.
Atoi(s) ==
  LET body == IF s # <<>> /\ Head(s) \in {"+", "-"} THEN Tail(s) ELSE s
      neg == s # <<>> /\ Head(s) = "-"
  IN IF body = <<>> \/ \E i \in 1..Len(body) : body[i] \notin Digits
       THEN [val |-> 0, err |-> <<"strconv.Atoi: invalid syntax">>]
       ELSE [val |-> IF neg THEN 0 - ParseDigits(body, 0) ELSE ParseDigits(body, 0),
             err |-> Nil]

\* os.Getenv: the value of a set variable, "" for an unset one
Getenv(env) == IF env = {} THEN <<>> ELSE CHOOSE v \in env : TRUE

\* mutant: the value is taken as seconds, not minutes
GetMacieTimeout_Seconds(timeoutStr) ==
  IF timeoutStr = <<>>
    THEN DefaultMacieTimeoutMinutes * SecondsPerMinute
    ELSE LET r == Atoi(timeoutStr)
         IN IF r.err # Nil
              THEN DefaultMacieTimeoutMinutes * SecondsPerMinute
              ELSE r.val

\* config.GetMacieTimeout, in seconds; timeoutStr is os.Getenv's answer
GetMacieTimeout(timeoutStr) ==
  IF timeoutStr = <<>>
    THEN DefaultMacieTimeoutMinutes * SecondsPerMinute
    ELSE LET r == Atoi(timeoutStr)
         IN IF r.err # Nil
              THEN DefaultMacieTimeoutMinutes * SecondsPerMinute
              ELSE r.val * SecondsPerMinute

\* ------------------------------------------- internal/awsutils/s3.go
\* mutant: a failed lookup answers the default region
GetBucketRegion_DefaultOnError(loc) ==
  IF loc.err # Nil
    THEN [val |-> "us-east-1", err |-> loc.err]
    ELSE [val |-> IF loc.LocationConstraint = "" THEN "us-east-1"
                  ELSE loc.LocationConstraint,
          err |-> Nil]

GetBucketRegion(loc) ==
  IF loc.err # Nil
    THEN [val |-> "", err |-> loc.err]
    ELSE [val |-> IF loc.LocationConstraint = "" THEN "us-east-1"
                  ELSE loc.LocationConstraint,
          err |-> Nil]

\* bucketNames[i] = *bucket.Name, or the error of the ListBuckets call
getBucketNames(list) ==
  IF list.err # Nil
    THEN [val |-> <<>>, err |-> list.err]
    ELSE [val |-> [i \in 1..Len(list.Buckets) |-> list.Buckets[i].Name],
          err |-> Nil]

\* mutant: a failed region lookup fails the whole listing
ListBuckets_FailFast(list, locs) ==
  LET names == getBucketNames(list)
      failed == {i \in 1..Len(names.val) :
                   GetBucketRegion(locs[names.val[i]]).err # Nil}
  IN IF names.err # Nil
       THEN [val |-> <<>>, err |-> names.err]
       ELSE IF failed # {}
         THEN [val |-> <<>>,
               err |-> GetBucketRegion(
                         locs[names.val[CHOOSE i \in failed :
                                          \A j \in failed : i <= j]]).err]
         ELSE [val |-> [i \in 1..Len(names.val) |->
                          [Name |-> names.val[i],
                           Region |-> GetBucketRegion(locs[names.val[i]]).val]],
               err |-> Nil]

\* locs[name] is what GetBucketLocation answers for the bucket name
ListBuckets(list, locs) ==
  LET names == getBucketNames(list)
  IN IF names.err # Nil
       THEN [val |-> <<>>, err |-> names.err]
       ELSE [val |-> [i \in 1..Len(names.val) |->
                        LET r == GetBucketRegion(locs[names.val[i]])
                        IN [Name |-> names.val[i],
                            Region |-> IF r.err # Nil THEN "unknown" ELSE r.val]],
             err |-> Nil]

\* mutant: a response without a configuration counts as blocking
PabBlocksAll_NilConfig(pab) ==
  /\ pab.err = Nil
  /\ \A c \in pab.config :
       /\ ToBool(c.BlockPublicAcls)
       /\ ToBool(c.BlockPublicPolicy)
       /\ ToBool(c.IgnorePublicAcls)
       /\ ToBool(c.RestrictPublicBuckets)

\* the public-access-block short circuit of IsBucketPublic
PabBlocksAll(pab) ==
  /\ pab.err = Nil
  /\ pab.config # {}
  /\ \A c \in pab.config :
       /\ ToBool(c.BlockPublicAcls)
       /\ ToBool(c.BlockPublicPolicy)
       /\ ToBool(c.IgnorePublicAcls)
       /\ ToBool(c.RestrictPublicBuckets)

\* mutant: only the AllUsers group makes a grant public
GrantIsPublic_AllUsersOnly(grant) ==
  \E g \in grant.Grantee : \E u \in g.URI : u = AllUsersURI

GrantIsPublic(grant) ==
  \E g \in grant.Grantee : \E u \in g.URI :
    u = AllUsersURI \/ u = AuthenticatedUsersURI

\* mutant: the ACL is consulted even when all four flags block
IsBucketPublic_AlwaysAcl(pab, acl) ==
  IF acl.err # Nil
    THEN [val |-> FALSE, err |-> acl.err, aclCalled |-> TRUE]
    ELSE [val |-> (~PabBlocksAll(pab))
                    /\ \E i \in 1..Len(acl.Grants) : GrantIsPublic(acl.Grants[i]),
          err |-> Nil, aclCalled |-> TRUE]

\* IsBucketPublic; aclCalled tells whether GetBucketAcl was issued
IsBucketPublic(pab, acl) ==
  IF PabBlocksAll(pab)
    THEN [val |-> FALSE, err |-> Nil, aclCalled |-> FALSE]
    ELSE IF acl.err # Nil
      THEN [val |-> FALSE, err |-> acl.err, aclCalled |-> TRUE]
      ELSE [val |-> \E i \in 1..Len(acl.Grants) : GrantIsPublic(acl.Grants[i]),
            err |-> Nil, aclCalled |-> TRUE]

\* mutant: the algorithm of the last rule is answered
GetBucketEncryption_LastRule(enc) ==
  IF enc.err # Nil
    THEN [val |-> "Not Enabled", err |-> enc.err]
    ELSE IF Len(enc.Rules) > 0
      THEN [val |-> enc.Rules[Len(enc.Rules)], err |-> Nil]
      ELSE [val |-> "Not Enabled", err |-> Nil]

GetBucketEncryption(enc) ==
  IF enc.err # Nil
    THEN [val |-> "Not Enabled", err |-> enc.err]
    ELSE IF Len(enc.Rules) > 0
      THEN [val |-> enc.Rules[1], err |-> Nil]
      ELSE [val |-> "Not Enabled", err |-> Nil]

\* mutant: every status but the empty one counts as enabled
GetBucketVersioning_AnyStatus(ver) ==
  IF ver.err # Nil
    THEN [val |-> "Unknown", err |-> ver.err]
    ELSE IF ver.Status # ""
      THEN [val |-> "Enabled", err |-> Nil]
      ELSE [val |-> "Disabled", err |-> Nil]

GetBucketVersioning(ver) ==
  IF ver.err # Nil
    THEN [val |-> "Unknown", err |-> ver.err]
    ELSE IF ver.Status = "Enabled"
      THEN [val |-> "Enabled", err |-> Nil]
      ELSE [val |-> "Disabled", err |-> Nil]

\* ----------------------------------------------------- remote responses
LocationResponses ==
  {[err |-> ProviderErr, LocationConstraint |-> ""],
   [err |-> Nil, LocationConstraint |-> ""],
   [err |-> Nil, LocationConstraint |-> "eu-west-1"]}

PabConfig(a, b, c, d) ==
  [BlockPublicAcls |-> a, BlockPublicPolicy |-> b,
   IgnorePublicAcls |-> c, RestrictPublicBuckets |-> d]

PabResponses ==
  {[err |-> ProviderErr, config |-> {}],
   [err |-> Nil, config |-> {}],
   [err |-> Nil, config |-> {PabConfig({TRUE}, {TRUE}, {TRUE}, {TRUE})}],
   [err |-> Nil, config |-> {PabConfig({TRUE}, {TRUE}, {FALSE}, {TRUE})}],
   [err |-> Nil, config |-> {PabConfig({TRUE}, {}, {TRUE}, {TRUE})}]}

Grant(uri) == [Grantee |-> {[URI |-> uri]}]

AclResponses ==
  {[err |-> ProviderErr, Grants |-> <<>>],
   [err |-> Nil, Grants |-> <<>>],
   [err |-> Nil, Grants |-> <<[Grantee |-> {}], Grant({})>>],
   [err |-> Nil, Grants |-> <<Grant({LogDeliveryURI}), Grant({AllUsersURI})>>],
   [err |-> Nil, Grants |-> <<Grant({AuthenticatedUsersURI})>>]}

EncryptionResponses ==
  {[err |-> ProviderErr, Rules |-> <<>>],
   [err |-> Nil, Rules |-> <<>>],
   [err |-> Nil, Rules |-> <<"aws:kms", "AES256">>]}

VersioningResponses ==
  {[err |-> ProviderErr, Status |-> ""],
   [err |-> Nil, Status |-> "Enabled"],
   [err |-> Nil, Status |-> "Suspended"],
   [err |-> Nil, Status |-> ""]}

IdentityResponses ==
  {[err |-> ProviderErr, Account |-> ""],
   [err |-> Nil, Account |-> "123456789012"]}

\* the id the classification service gives its n-th job
NewJobId(n) == <<"job-", ToString(n)>>

\* what CreateClassificationJob may answer when the service has created n
\* jobs so far: an error, or the id of a new job
CreateJobResponses(errs, n) ==
  {[err |-> e, JobId |-> IF e = Nil THEN NewJobId(n + 1) ELSE <<>>] : e \in errs}

DescribeResponses ==
  {[err |-> ProviderErr, JobStatus |-> ""]}
    \cup {[err |-> Nil, JobStatus |-> st] : st \in JobStatuses}

ListFindingsResponses ==
  {[err |-> ProviderErr, FindingIds |-> <<>>],
   [err |-> Nil, FindingIds |-> <<>>],
   [err |-> Nil, FindingIds |-> <<"f1">>],
   [err |-> Nil, FindingIds |-> <<"f1", "f2">>]}

GetFindingsResponses ==
  {[err |-> ProviderErr, Findings |-> <<>>],
   [err |-> Nil, Findings |-> <<>>],
   [err |-> Nil, Findings |-> <<"f1">>]}

BucketNames == {"my-first-bucket", "public-bucket"}

\* values of MACIE_JOB_TIMEOUT_MINUTES, as characters; <<>> is unset or empty
EnvValues == {<<>>, <<"1">>, <<"2">>, <<"0">>, <<"-", "1">>, <<"a", "b", "c">>}


\* ------------------------------------------------------------------ state
VARIABLES
  environ,      \* value of MACIE_JOB_TIMEOUT_MINUTES (characters; <<>> unset)
  callerPc,     \* AuditBucket's caller: "idle", "waiting" (wg.Wait), "returned"
  retErr,       \* the error AuditBucket returned
  wg,           \* sync.WaitGroup counter of AuditBucket
  pc,           \* position of the worker goroutine of AuditBucket
  bucketInfo,   \* models.BucketInfo of the worker
  calls,        \* remote calls issued so far, per operation
  sent,         \* inputs handed to the Macie client
  now,          \* wall clock, seconds
  startTime,    \* AuditBucket's startTime
  deadline,     \* when the time.After channel of the poll loop fires
  tickPending,  \* a tick waits in ticker.C (buffer of one)
  dropped,      \* ticks the ticker dropped so far
  identity,     \* the account GetCallerIdentity answered, {} if none
  jobID,        \* checkSensitiveData's jobID variable
  lastDescribe, \* the latest DescribeClassificationJob response, {} if none
  listResp,     \* the ListFindings response, {} if none
  getResp,      \* the GetFindings response, {} if none
  csdRet,       \* what checkSensitiveData returned, {} while it has not
  auditErr,     \* the error the worker logged before giving up, Nil if none
  printed,      \* records handed to PrintBucketReport, in order
  remote,       \* the remote services: what each operation may answer
  jobs,         \* how many classification jobs the service has created
  requests,     \* the buckets the user of the menu loop will ask to audit
  trace,        \* the remote operations of the current audit, in issue order
  history       \* one summary per AuditBucket call that has returned

scannerVars ==
  <<environ, callerPc, retErr, wg, pc, bucketInfo, calls, sent, now,
    startTime, deadline, tickPending, dropped, identity, jobID,
    lastDescribe, listResp, getResp, csdRet, auditErr, printed,
    remote, jobs, requests, trace, history>>

\* state of the batch program (main.go)
VARIABLES
  mainPc,       \* auditBuckets: "loop", "returned", then "printed" (printReport)
  spawned,      \* how many workers the loop of auditBuckets has started
  bwg,          \* sync.WaitGroup counter of auditBuckets
  bpc,          \* position of each worker
  binfo,        \* each worker's local bucketInfo
  berr,         \* the error each worker logged before giving up, Nil if none
  belapsed,     \* seconds since each worker's poll timer was created
  btick,        \* a tick waits in the worker's ticker.C
  bjob,         \* each worker's jobID variable
  bucketInfos,  \* the result slice of auditBuckets
  report,       \* the records printReport printed, in order
  bcompleted    \* the worker has printed "Macie job completed."

batchVars ==
  <<mainPc, spawned, bwg, bpc, binfo, berr, belapsed, btick, bjob,
    bucketInfos, report, bcompleted>>

\* one call of a helper function by a caller outside the audit
VARIABLES
  utilOp,       \* the helper called last, "none" before the first call
  utilArg,      \* what the call was given: the remote responses, the environment
  utilRet       \* what the call returned

utilVars == <<utilOp, utilArg, utilRet>>

vars == <<scannerVars, batchVars, utilVars>>

Operations ==
  {"GetBucketLocation", "GetPublicAccessBlock", "GetBucketAcl",
   "GetBucketEncryption", "GetBucketVersioning", "GetCallerIdentity",
   "CreateClassificationJob", "DescribeClassificationJob", "ListFindings",
   "GetFindings"}

Called(c, op) == [c EXCEPT ![op] = @ + 1]

\* models.BucketInfo{Name: bucketName}
\* remote services that may answer every call with any response
AnyRemote ==
  [location |-> LocationResponses, pab |-> PabResponses, acl |-> AclResponses,
   encryption |-> EncryptionResponses, versioning |-> VersioningResponses,
   identity |-> IdentityResponses, create |-> {ProviderErr, Nil},
   describe |-> <<DescribeResponses>>, list |-> ListFindingsResponses,
   get |-> GetFindingsResponses]

\* what the k-th DescribeClassificationJob call of an audit may answer; the
\* last entry of remote.describe stands for every later call
DescribeAnswers(k) ==
  remote.describe[IF k > Len(remote.describe) THEN Len(remote.describe) ELSE k]

NoCalls == [op \in Operations |-> 0]

NothingSent == [create |-> {}, describe |-> {}, list |-> {}, get |-> {}]

NewBucketInfo(name) ==
  [Name |-> name, Region |-> "", IsPublic |-> FALSE, Encryption |-> "",
   VersioningStatus |-> "", SensitiveData |-> FALSE, AuditDuration |-> 0]

ScannerInit ==
  /\ environ \in EnvValues
  /\ callerPc = "idle"
  /\ retErr = Nil
  /\ wg = 0
  /\ pc = "idle"
  /\ bucketInfo = NewBucketInfo("")
  /\ calls = NoCalls
  /\ sent = NothingSent
  /\ now = 0
  /\ startTime = 0
  /\ deadline = 0
  /\ tickPending = FALSE
  /\ dropped = 0
  /\ identity = {}
  /\ jobID = <<>>
  /\ lastDescribe = {}
  /\ listResp = {}
  /\ getResp = {}
  /\ csdRet = {}
  /\ auditErr = Nil
  /\ printed = <<>>
  /\ jobs = 0
  /\ trace = <<>>
  /\ history = <<>>

\* ------------------------------------ Scanner.AuditBucket, the caller side
\* wg.Add(1); startTime := time.Now(); go func(bucketName)
\* The call starts with fresh locals; what the model remembers of an
\* earlier call (its calls, inputs, responses and results) starts afresh too.
AuditBucket(bucketName) ==
  /\ UNCHANGED <<batchVars, utilVars, remote, jobs, history>>
  /\ callerPc \in {"idle", "returned"}
  /\ requests # <<>>
  /\ bucketName = Head(requests)
  /\ requests' = Tail(requests)
  /\ callerPc' = "waiting"
  /\ wg' = wg + 1
  /\ startTime' = now
  /\ bucketInfo' = NewBucketInfo(bucketName)
  /\ pc' = "region"
  /\ calls' = NoCalls
  /\ sent' = NothingSent
  /\ trace' = <<>>
  /\ deadline' = 0
  /\ tickPending' = FALSE
  /\ dropped' = 0
  /\ identity' = {}
  /\ jobID' = <<>>
  /\ lastDescribe' = {}
  /\ listResp' = {}
  /\ getResp' = {}
  /\ csdRet' = {}
  /\ auditErr' = Nil
  /\ UNCHANGED <<environ, retErr, now, printed>>

\* mutant: the caller does not wait for the worker
WaitReleased_NoWait(counter) == TRUE

\* wg.Wait() lets the caller go on when the counter is zero
WaitReleased(counter) == counter = 0

\* the value of AuditBucket's return statement; workerErr is what the
\* worker logged, which the return statement never reads
AuditBucketResult(workerErr) == Nil

\* wg.Wait(); return nil
\* what the model keeps of a call that has returned
AuditSummary ==
  [bucketInfo |-> bucketInfo, reports |-> Len(printed), trace |-> trace,
   jobID |-> jobID, csdRet |-> csdRet, auditErr |-> auditErr]

AuditBucketReturn ==
  /\ UNCHANGED <<batchVars, utilVars, remote, jobs, requests, trace>>
  /\ callerPc = "waiting"
  /\ WaitReleased(wg)
  /\ callerPc' = "returned"
  /\ retErr' = AuditBucketResult(auditErr)
  /\ history' = Append(history, AuditSummary)
  /\ UNCHANGED <<environ, wg, pc, bucketInfo, calls, sent, now, startTime,
                 deadline, tickPending, dropped, identity, jobID, lastDescribe,
                 listResp, getResp, csdRet, auditErr, printed>>

\* ------------------------------------ Scanner.AuditBucket, the worker side
\* mutant: the versioning check is made a second time
StageAfter_VersioningTwice(p) ==
  CASE p = "region" -> "public"
    [] p = "public" -> "encryption"
    [] p = "encryption" -> "versioning"
    [] p = "versioning" /\ calls["GetBucketVersioning"] = 0 -> "versioning"
    [] OTHER -> "identity"

\* mutant: the encryption check runs before the public-access check
StageAfter_EncryptionFirst(p) ==
  CASE p = "region" -> "encryption"
    [] p = "encryption" -> "public"
    [] p = "public" -> "versioning"
    [] OTHER -> "identity"

\* the check that follows a basic check in AuditBucket's body
StageAfter(p) ==
  CASE p = "region" -> "public"
    [] p = "public" -> "encryption"
    [] p = "encryption" -> "versioning"
    [] OTHER -> "identity"

\* mutant: a failed check is logged but the return statement is missing
GiveUp_LogOnly(msg, err) ==
  /\ auditErr' = Errorf(msg, err)
  /\ pc' = StageAfter(pc)
  /\ UNCHANGED <<wg, bucketInfo, printed>>

\* a failed check: log, return; the deferred wg.Done() runs
GiveUp(msg, err) ==
  /\ auditErr' = Errorf(msg, err)
  /\ pc' = "done"
  /\ wg' = wg - 1
  /\ UNCHANGED <<bucketInfo, printed>>

CheckRegion ==
  /\ UNCHANGED <<batchVars, utilVars, remote, jobs, requests, history>>
  /\ pc = "region"
  /\ \E loc \in remote.location :
       LET r == GetBucketRegion(loc)
       IN /\ calls' = Called(calls, "GetBucketLocation")
          /\ trace' = Append(trace, "GetBucketLocation")
          /\ IF r.err # Nil
               THEN GiveUp("Error: Unable to get region for bucket: ", r.err)
               ELSE /\ bucketInfo' = [bucketInfo EXCEPT !.Region = r.val]
                    /\ pc' = StageAfter(pc)
                    /\ UNCHANGED <<wg, auditErr, printed>>
  /\ UNCHANGED <<environ, callerPc, retErr, sent, now, startTime, deadline,
                 tickPending, dropped, identity, jobID, lastDescribe, listResp,
                 getResp, csdRet>>

CheckPublic ==
  /\ UNCHANGED <<batchVars, utilVars, remote, jobs, requests, history>>
  /\ pc = "public"
  /\ \E pab \in remote.pab, acl \in remote.acl :
       LET r == IsBucketPublic(pab, acl)
       IN /\ calls' =
               IF r.aclCalled
                 THEN Called(Called(calls, "GetPublicAccessBlock"), "GetBucketAcl")
                 ELSE Called(calls, "GetPublicAccessBlock")
          /\ trace' =
               IF r.aclCalled
                 THEN trace \o <<"GetPublicAccessBlock", "GetBucketAcl">>
                 ELSE Append(trace, "GetPublicAccessBlock")
          /\ IF r.err # Nil
               THEN GiveUp("Error: Unable to check public access for bucket: ", r.err)
               ELSE /\ bucketInfo' = [bucketInfo EXCEPT !.IsPublic = r.val]
                    /\ pc' = StageAfter(pc)
                    /\ UNCHANGED <<wg, auditErr, printed>>
  /\ UNCHANGED <<environ, callerPc, retErr, sent, now, startTime, deadline,
                 tickPending, dropped, identity, jobID, lastDescribe, listResp,
                 getResp, csdRet>>

CheckEncryption ==
  /\ UNCHANGED <<batchVars, utilVars, remote, jobs, requests, history>>
  /\ pc = "encryption"
  /\ \E enc \in remote.encryption :
       LET r == GetBucketEncryption(enc)
       IN /\ calls' = Called(calls, "GetBucketEncryption")
          /\ trace' = Append(trace, "GetBucketEncryption")
          /\ IF r.err # Nil
               THEN GiveUp("Error: Unable to get encryption for bucket: ", r.err)
               ELSE /\ bucketInfo' = [bucketInfo EXCEPT !.Encryption = r.val]
                    /\ pc' = StageAfter(pc)
                    /\ UNCHANGED <<wg, auditErr, printed>>
  /\ UNCHANGED <<environ, callerPc, retErr, sent, now, startTime, deadline,
                 tickPending, dropped, identity, jobID, lastDescribe, listResp,
                 getResp, csdRet>>

CheckVersioning ==
  /\ UNCHANGED <<batchVars, utilVars, remote, jobs, requests, history>>
  /\ pc = "versioning"
  /\ \E ver \in remote.versioning :
       LET r == GetBucketVersioning(ver)
       IN /\ calls' = Called(calls, "GetBucketVersioning")
          /\ trace' = Append(trace, "GetBucketVersioning")
          /\ IF r.err # Nil
               THEN GiveUp("Error: Unable to get versioning status for bucket: ", r.err)
               ELSE /\ bucketInfo' = [bucketInfo EXCEPT !.VersioningStatus = r.val]
                    /\ pc' = StageAfter(pc)
                    /\ UNCHANGED <<wg, auditErr, printed>>
  /\ UNCHANGED <<environ, callerPc, retErr, sent, now, startTime, deadline,
                 tickPending, dropped, identity, jobID, lastDescribe, listResp,
                 getResp, csdRet>>


\* ------------------------------------------- Scanner.checkSensitiveData
\* mutant: AuditBucket sets the duration and prints the record whether or
\* not the sensitive-data check failed
ReturnToAuditBucket_PrintAnyway(val, err) ==
  /\ csdRet' = {[val |-> val, err |-> err]}
  /\ pc' = "done"
  /\ wg' = wg - 1
  /\ auditErr' = IF err # Nil
                   THEN Errorf("Error: Unable to check sensitive data for bucket: ", err)
                   ELSE auditErr
  /\ bucketInfo' = [bucketInfo EXCEPT !.SensitiveData = val,
                                      !.AuditDuration = now - startTime]
  /\ printed' = Append(printed, bucketInfo')

\* mutant: the timeout leaves the poll loop instead of the function, so the
\* findings are fetched all the same
ReturnToAuditBucket_TimeoutBreaks(val, err) ==
  /\ csdRet' = {[val |-> val, err |-> err]}
  /\ IF err = <<"timeout waiting for Macie classification job completion">>
       THEN /\ pc' = "list"
            /\ UNCHANGED <<wg, auditErr, bucketInfo, printed>>
       ELSE /\ pc' = "done"
            /\ wg' = wg - 1
            /\ IF err # Nil
                 THEN /\ auditErr' = Errorf("Error: Unable to check sensitive data for bucket: ", err)
                      /\ UNCHANGED <<bucketInfo, printed>>
                 ELSE /\ bucketInfo' = [bucketInfo EXCEPT !.SensitiveData = val,
                                                          !.AuditDuration = now - startTime]
                      /\ printed' = Append(printed, bucketInfo')
                      /\ UNCHANGED auditErr

\* checkSensitiveData returns (val, err) and AuditBucket goes on from its
\* call: on an error it logs and returns; otherwise it stores the value,
\* sets AuditDuration and prints the report.  The deferred wg.Done() runs.
ReturnToAuditBucket(val, err) ==
  /\ csdRet' = {[val |-> val, err |-> err]}
  /\ pc' = "done"
  /\ wg' = wg - 1
  /\ IF err # Nil
       THEN /\ auditErr' = Errorf("Error: Unable to check sensitive data for bucket: ", err)
            /\ UNCHANGED <<bucketInfo, printed>>
       ELSE /\ bucketInfo' = [bucketInfo EXCEPT !.SensitiveData = val,
                                                !.AuditDuration = now - startTime]
            /\ printed' = Append(printed, bucketInfo')
            /\ UNCHANGED auditErr

\* mutant: the error of the identity lookup is ignored
IdentityFailed_Ignored(resp) == FALSE

\* if err != nil after GetCallerIdentity
IdentityFailed(resp) == resp.err # Nil

GetCallerIdentity ==
  /\ UNCHANGED <<batchVars, utilVars, remote, jobs, requests, history>>
  /\ pc = "identity"
  /\ \E resp \in remote.identity :
       /\ calls' = Called(calls, "GetCallerIdentity")
       /\ trace' = Append(trace, "GetCallerIdentity")
       /\ IF IdentityFailed(resp)
            THEN /\ ReturnToAuditBucket(FALSE,
                      Errorf("Error: failed to retrieve account ID: ", resp.err))
                 /\ UNCHANGED <<identity, jobID>>
            ELSE /\ identity' = {resp.Account}
                 /\ jobID' = <<"s3-audit-", bucketInfo.Name, "-", ToString(now)>>
                 /\ pc' = "create"
                 /\ UNCHANGED <<wg, bucketInfo, csdRet, auditErr, printed>>
  /\ UNCHANGED <<environ, callerPc, retErr, sent, now, startTime, deadline,
                 tickPending, dropped, lastDescribe, listResp, getResp>>

\* macie2.CreateClassificationJobInput
CreateJobInput(name, account, bucketName) ==
  [JobType |-> "ONE_TIME", Name |-> name,
   BucketDefinitions |-> <<[AccountId |-> account, Buckets |-> <<bucketName>>]>>]

\* mutant: jobID keeps the request name the client made up
JobIdOf_RequestName(resp) == jobID

\* mutant: the id of the first job is kept and used by every later audit
JobIdOf_Earlier(resp) ==
  IF \E i \in 1..Len(history) : "DescribeClassificationJob" \in
          {history[i].trace[k] : k \in 1..Len(history[i].trace)}
    THEN NewJobId(1)
    ELSE resp.JobId

\* jobID = *createJobOutput.JobId
JobIdOf(resp) == resp.JobId

\* mutant: jobDone outlives the call, so it is still true when an earlier
\* audit saw its job complete
JobDoneAtLoopStart_Kept(earlier) ==
  \E i \in 1..Len(earlier) :
    "ListFindings" \in {earlier[i].trace[k] : k \in 1..Len(earlier[i].trace)}

\* jobDone := false, whatever earlier audits did
JobDoneAtLoopStart(earlier) == FALSE

\* mutant: the error of the job submission is ignored
CreateFailed_Ignored(resp) == FALSE

\* if err != nil after CreateClassificationJob
CreateFailed(resp) == resp.err # Nil

CreateClassificationJob ==
  /\ UNCHANGED <<batchVars, utilVars, remote, requests, history>>
  /\ pc = "create"
  /\ \E resp \in CreateJobResponses(remote.create, jobs), account \in identity :
       /\ calls' = Called(calls, "CreateClassificationJob")
       /\ trace' = Append(trace, "CreateClassificationJob")
       /\ jobs' = IF resp.err = Nil THEN jobs + 1 ELSE jobs
       /\ sent' = [sent EXCEPT !.create =
                     {CreateJobInput(jobID, account, bucketInfo.Name)}]
       /\ IF CreateFailed(resp)
            THEN /\ ReturnToAuditBucket(FALSE,
                      Errorf("Error: failed to create Macie classification job: ", resp.err))
                 /\ UNCHANGED <<jobID, deadline, tickPending>>
            ELSE /\ jobID' = JobIdOf(resp)
                 /\ deadline' = now + GetMacieTimeout(environ)
                 /\ tickPending' = FALSE
                 /\ pc' = IF JobDoneAtLoopStart(history) THEN "list" ELSE "poll"
                 /\ UNCHANGED <<wg, bucketInfo, csdRet, auditErr, printed>>
  /\ UNCHANGED <<environ, callerPc, retErr, now, startTime, dropped,
                 identity, lastDescribe, listResp, getResp>>

\* the clock moves on by one ticker period while the worker is in the poll
\* loop; the ticker puts a tick into its channel (a tick that finds the
\* channel full is dropped)
Horizon ==
  (IF deadline > startTime THEN deadline ELSE startTime) + MaxOverrun * TickerPeriod

Advance ==
  /\ UNCHANGED <<batchVars, utilVars, remote, jobs, requests, trace, history>>
  /\ pc = "poll"
  /\ now < Horizon
  /\ tickPending => dropped < MaxDroppedTicks
  /\ now' = now + TickerPeriod
  /\ tickPending' = TRUE
  /\ dropped' = IF tickPending THEN dropped + 1 ELSE dropped
  /\ UNCHANGED <<environ, callerPc, retErr, wg, pc, bucketInfo, calls, sent,
                 startTime, deadline, identity, jobID, lastDescribe, listResp,
                 getResp, csdRet, auditErr, printed>>

\* mutant: the timeout channel never delivers
TimerFired_Never(t, d) == FALSE

\* the channel of time.After holds a value from the deadline on
TimerFired(t, d) == t >= d

\* mutant: the timeout case returns no error
TimeoutError_Nil(id) == Nil

\* case <-timeout: the error checkSensitiveData returns
TimeoutError(id) ==
  Errorf("timeout waiting for Macie classification job completion", <<>>)

\* mutant: every status but Running and Complete counts as a failed job
StatusFailed_AllButRunning(st) ==
  st # JobStatusRunning /\ st # JobStatusComplete

\* mutant: Cancelled is not among the failed statuses
StatusFailed_NoCancelled(st) ==
  st = JobStatusUserPaused \/ st = JobStatusPaused

\* the statuses the poll loop treats as a failed job
StatusFailed(st) ==
  st = JobStatusUserPaused \/ st = JobStatusCancelled \/ st = JobStatusPaused

\* mutant: the error of the describe call is ignored
DescribeFailed_Ignored(resp) == FALSE

\* if err != nil after DescribeClassificationJob
DescribeFailed(resp) == resp.err # Nil

\* mutant: the empty list of finding ids is not told apart
NoFindings_Never(ids) == FALSE

\* if len(findingsOutput.FindingIds) == 0
NoFindings(ids) == Len(ids) = 0

\* mutant: the verdict is taken from the details GetFindings returned
FindingsVerdict_FromDetails(details) == Len(details) > 0

\* the value checkSensitiveData returns once GetFindings has succeeded; the
\* details are only printed
FindingsVerdict(details) == TRUE

\* select, case <-timeout
PollTimeout ==
  /\ UNCHANGED <<batchVars, utilVars, remote, jobs, requests, trace, history>>
  /\ pc = "poll"
  /\ TimerFired(now, deadline)
  /\ ReturnToAuditBucket(FALSE, TimeoutError(jobID))
  /\ UNCHANGED <<environ, callerPc, retErr, calls, sent, now, startTime,
                 deadline, tickPending, dropped, identity, jobID, lastDescribe,
                 listResp, getResp>>

\* select, case <-ticker.C
PollTick ==
  /\ UNCHANGED <<batchVars, utilVars, remote, jobs, requests, history>>
  /\ pc = "poll"
  /\ tickPending
  /\ tickPending' = FALSE
  /\ \E resp \in DescribeAnswers(calls["DescribeClassificationJob"] + 1) :
       /\ calls' = Called(calls, "DescribeClassificationJob")
       /\ trace' = Append(trace, "DescribeClassificationJob")
       /\ sent' = [sent EXCEPT !.describe = @ \cup {jobID}]
       /\ lastDescribe' = {resp}
       /\ IF DescribeFailed(resp)
            THEN ReturnToAuditBucket(FALSE,
                   Errorf("Error: failed to get job status: ", resp.err))
            ELSE IF resp.JobStatus = JobStatusComplete
              THEN /\ pc' = "list"
                   /\ UNCHANGED <<wg, bucketInfo, csdRet, auditErr, printed>>
              ELSE IF StatusFailed(resp.JobStatus)
                THEN ReturnToAuditBucket(FALSE,
                       Errorf("Macie classification job failed", <<>>))
                ELSE UNCHANGED <<pc, wg, bucketInfo, csdRet, auditErr, printed>>
  /\ UNCHANGED <<environ, callerPc, retErr, now, startTime, deadline,
                 dropped, identity, jobID, listResp, getResp>>

ListFindings ==
  /\ UNCHANGED <<batchVars, utilVars, remote, jobs, requests, history>>
  /\ pc = "list"
  /\ \E resp \in remote.list :
       /\ calls' = Called(calls, "ListFindings")
       /\ trace' = Append(trace, "ListFindings")
       /\ sent' = [sent EXCEPT !.list = @ \cup {jobID}]
       /\ listResp' = {resp}
       /\ IF resp.err # Nil
            THEN ReturnToAuditBucket(FALSE,
                   Errorf("Error: failed to list Macie findings: ", resp.err))
            ELSE IF NoFindings(resp.FindingIds)
              THEN ReturnToAuditBucket(FALSE, Nil)
              ELSE /\ pc' = "get"
                   /\ UNCHANGED <<wg, bucketInfo, csdRet, auditErr, printed>>
  /\ UNCHANGED <<environ, callerPc, retErr, now, startTime, deadline,
                 tickPending, dropped, identity, jobID, lastDescribe, getResp>>

\* mutant: a failed GetFindings call is passed over
GetFindingsFailed_Ignored(resp) == FALSE

\* if err != nil after GetFindings
GetFindingsFailed(resp) == resp.err # Nil

GetFindings ==
  /\ UNCHANGED <<batchVars, utilVars, remote, jobs, requests, history>>
  /\ pc = "get"
  /\ \E resp \in remote.get, found \in listResp :
       /\ calls' = Called(calls, "GetFindings")
       /\ trace' = Append(trace, "GetFindings")
       /\ sent' = [sent EXCEPT !.get = @ \cup {found.FindingIds}]
       /\ getResp' = {resp}
       /\ IF GetFindingsFailed(resp)
            THEN ReturnToAuditBucket(FALSE,
                   Errorf("Error: failed to get findings details: ", resp.err))
            ELSE ReturnToAuditBucket(FindingsVerdict(resp.Findings), Nil)
  /\ UNCHANGED <<environ, callerPc, retErr, now, startTime, deadline,
                 tickPending, dropped, identity, jobID, lastDescribe, listResp>>



\* =========================================================== main.go
\* time.After(15 * time.Minute), in minutes
BatchTimeoutMinutes == 15

\* the buckets listBuckets returned: names are part sequences, "" is <<>>
BatchBuckets == [i \in 1..NBuckets |-> <<"bucket-", ToString(i)>>]

Workers == 1..NBuckets

\* BucketInfo{Name: bucketName} of main.go (no AuditDuration field)
batchBucketInfo(name) ==
  [Name |-> name, Region |-> "", IsPublic |-> FALSE, Encryption |-> "",
   VersioningStatus |-> "", SensitiveData |-> FALSE]

getBucketRegion(loc) ==
  IF loc.err # Nil
    THEN [val |-> "", err |-> loc.err]
    ELSE [val |-> IF loc.LocationConstraint = "" THEN "us-east-1"
                  ELSE loc.LocationConstraint,
          err |-> Nil]

\* isBucketPublic dereferences the four flags; the responses drawn for the
\* batch carry all four
isBucketPublic(pab, acl) ==
  IF /\ pab.err = Nil
     /\ pab.config # {}
     /\ \A c \in pab.config :
          /\ TRUE \in c.BlockPublicAcls
          /\ TRUE \in c.BlockPublicPolicy
          /\ TRUE \in c.IgnorePublicAcls
          /\ TRUE \in c.RestrictPublicBuckets
    THEN [val |-> FALSE, err |-> Nil, aclCalled |-> FALSE]
    ELSE IF acl.err # Nil
      THEN [val |-> FALSE, err |-> acl.err, aclCalled |-> TRUE]
      ELSE [val |-> \E i \in 1..Len(acl.Grants) : GrantIsPublic(acl.Grants[i]),
            err |-> Nil, aclCalled |-> TRUE]

\* getBucketEncryption answers "Not Enabled" with a nil error on a failure
getBucketEncryption(enc) ==
  IF enc.err # Nil
    THEN [val |-> "Not Enabled", err |-> Nil]
    ELSE IF Len(enc.Rules) > 0
      THEN [val |-> enc.Rules[1], err |-> Nil]
      ELSE [val |-> "Not Enabled", err |-> Nil]

getBucketVersioning(ver) ==
  IF ver.err # Nil
    THEN [val |-> "Unknown", err |-> ver.err]
    ELSE IF ver.Status = "Enabled"
      THEN [val |-> "Enabled", err |-> Nil]
      ELSE [val |-> "Disabled", err |-> Nil]

\* the responses drawn for the batch
BatchLocationResponses ==
  {[err |-> ProviderErr, LocationConstraint |-> ""],
   [err |-> Nil, LocationConstraint |-> ""]}

BatchPabResponses ==
  {[err |-> ProviderErr, config |-> {}],
   [err |-> Nil, config |-> {PabConfig({TRUE}, {TRUE}, {TRUE}, {TRUE})}],
   [err |-> Nil, config |-> {PabConfig({TRUE}, {FALSE}, {TRUE}, {TRUE})}]}

BatchAclResponses ==
  {[err |-> ProviderErr, Grants |-> <<>>],
   [err |-> Nil, Grants |-> <<Grant({LogDeliveryURI})>>]}

BatchEncryptionResponses ==
  {[err |-> ProviderErr, Rules |-> <<>>],
   [err |-> Nil, Rules |-> <<>>]}

BatchVersioningResponses ==
  {[err |-> ProviderErr, Status |-> ""],
   [err |-> Nil, Status |-> "Suspended"]}

BatchInit ==
  /\ mainPc = "loop"
  /\ spawned = 0
  /\ bwg = 0
  /\ bpc = [i \in Workers |-> "unborn"]
  /\ binfo = [i \in Workers |-> batchBucketInfo(<<>>)]
  /\ berr = [i \in Workers |-> Nil]
  /\ belapsed = [i \in Workers |-> 0]
  /\ btick = [i \in Workers |-> FALSE]
  /\ bjob = [i \in Workers |-> <<>>]
  /\ bucketInfos = [i \in Workers |-> batchBucketInfo(<<>>)]
  /\ report = <<>>
  /\ bcompleted = [i \in Workers |-> FALSE]

\* for i, bucketName := range buckets { wg.Add(1); go func(i, bucketName) }
Spawn ==
  /\ UNCHANGED <<scannerVars, utilVars>>
  /\ UNCHANGED bcompleted
  /\ mainPc = "loop"
  /\ spawned < NBuckets
  /\ spawned' = spawned + 1
  /\ bwg' = bwg + 1
  /\ bpc' = [bpc EXCEPT ![spawned + 1] = "region"]
  /\ binfo' = [binfo EXCEPT ![spawned + 1] = batchBucketInfo(BatchBuckets[spawned + 1])]
  /\ UNCHANGED <<mainPc, berr, belapsed, btick, bjob, bucketInfos, report>>

\* mutant: auditBuckets does not wait for its workers
batchWaitReleased_NoWait(counter) == TRUE

\* wg.Wait() of auditBuckets lets it go on when the counter is zero
batchWaitReleased(counter) == counter = 0

\* wg.Wait(); return bucketInfos
auditBucketsReturn ==
  /\ UNCHANGED <<scannerVars, utilVars>>
  /\ UNCHANGED bcompleted
  /\ mainPc = "loop"
  /\ spawned = NBuckets
  /\ batchWaitReleased(bwg)
  /\ mainPc' = "returned"
  /\ UNCHANGED <<spawned, bwg, bpc, binfo, berr, belapsed, btick, bjob,
                 bucketInfos, report>>

\* printReport skips the slots whose Name is empty
printReport ==
  /\ UNCHANGED <<scannerVars, utilVars>>
  /\ UNCHANGED bcompleted
  /\ mainPc = "returned"
  /\ mainPc' = "printed"
  /\ report' = SelectSeq([i \in Workers |-> bucketInfos[i]],
                         LAMBDA info : info.Name # <<>>)
  /\ UNCHANGED <<spawned, bwg, bpc, binfo, berr, belapsed, btick, bjob,
                 bucketInfos>>

\* mutant: the failure is fatal for the whole process (log.Fatalf), so
\* every worker ends with it
batchGiveUp_Fatal(i, msg, err) ==
  /\ berr' = [berr EXCEPT ![i] = Errorf(msg, err)]
  /\ bpc' = [j \in Workers |-> "done"]
  /\ bwg' = 0

\* worker i logs the failure and returns; its deferred wg.Done() runs
batchGiveUp(i, msg, err) ==
  /\ berr' = [berr EXCEPT ![i] = Errorf(msg, err)]
  /\ bpc' = [bpc EXCEPT ![i] = "done"]
  /\ bwg' = bwg - 1

batchCheckRegion(i) ==
  /\ UNCHANGED <<scannerVars, utilVars>>
  /\ UNCHANGED bcompleted
  /\ bpc[i] = "region"
  /\ \E loc \in BatchLocationResponses :
       LET r == getBucketRegion(loc)
       IN IF r.err # Nil
            THEN /\ batchGiveUp(i, "Unable to get region for bucket: ", r.err)
                 /\ UNCHANGED binfo
            ELSE /\ binfo' = [binfo EXCEPT ![i].Region = r.val]
                 /\ bpc' = [bpc EXCEPT ![i] = "public"]
                 /\ UNCHANGED <<berr, bwg>>
  /\ UNCHANGED <<mainPc, spawned, belapsed, btick, bjob, bucketInfos, report>>

batchCheckPublic(i) ==
  /\ UNCHANGED <<scannerVars, utilVars>>
  /\ UNCHANGED bcompleted
  /\ bpc[i] = "public"
  /\ \E pab \in BatchPabResponses, acl \in BatchAclResponses :
       LET r == isBucketPublic(pab, acl)
       IN IF r.err # Nil
            THEN /\ batchGiveUp(i, "Unable to check public access for bucket: ", r.err)
                 /\ UNCHANGED binfo
            ELSE /\ binfo' = [binfo EXCEPT ![i].IsPublic = r.val]
                 /\ bpc' = [bpc EXCEPT ![i] = "encryption"]
                 /\ UNCHANGED <<berr, bwg>>
  /\ UNCHANGED <<mainPc, spawned, belapsed, btick, bjob, bucketInfos, report>>

batchCheckEncryption(i) ==
  /\ UNCHANGED <<scannerVars, utilVars>>
  /\ UNCHANGED bcompleted
  /\ bpc[i] = "encryption"
  /\ \E enc \in BatchEncryptionResponses :
       LET r == getBucketEncryption(enc)
       IN IF r.err # Nil
            THEN /\ batchGiveUp(i, "Unable to get encryption for bucket: ", r.err)
                 /\ UNCHANGED binfo
            ELSE /\ binfo' = [binfo EXCEPT ![i].Encryption = r.val]
                 /\ bpc' = [bpc EXCEPT ![i] = "versioning"]
                 /\ UNCHANGED <<berr, bwg>>
  /\ UNCHANGED <<mainPc, spawned, belapsed, btick, bjob, bucketInfos, report>>

batchCheckVersioning(i) ==
  /\ UNCHANGED <<scannerVars, utilVars>>
  /\ UNCHANGED bcompleted
  /\ bpc[i] = "versioning"
  /\ \E ver \in BatchVersioningResponses :
       LET r == getBucketVersioning(ver)
       IN IF r.err # Nil
            THEN /\ batchGiveUp(i, "Unable to get versioning status for bucket: ", r.err)
                 /\ UNCHANGED binfo
            ELSE /\ binfo' = [binfo EXCEPT ![i].VersioningStatus = r.val]
                 /\ bpc' = [bpc EXCEPT ![i] = "identity"]
                 /\ UNCHANGED <<berr, bwg>>
  /\ UNCHANGED <<mainPc, spawned, belapsed, btick, bjob, bucketInfos, report>>


\* ---------------------------------------- checkSensitiveData of main.go
\* mutant: the worker writes its record into slot i whatever
\* checkSensitiveData returned
batchReturnToWorker_PartialRecord(i, val, err) ==
  /\ bucketInfos' = [bucketInfos EXCEPT ![i] = binfo[i]]
  /\ UNCHANGED binfo
  /\ IF err # Nil
       THEN batchGiveUp(i, "Unable to check sensitive data for bucket: ", err)
       ELSE /\ bpc' = [bpc EXCEPT ![i] = "done"]
            /\ bwg' = bwg - 1
            /\ UNCHANGED berr

\* checkSensitiveData returned (val, err) to worker i: on an error the
\* worker logs and returns, otherwise it stores the value and writes its
\* record into slot i of the result slice
batchReturnToWorker(i, val, err) ==
  IF err # Nil
    THEN /\ batchGiveUp(i, "Unable to check sensitive data for bucket: ", err)
         /\ UNCHANGED <<binfo, bucketInfos>>
    ELSE /\ binfo' = [binfo EXCEPT ![i].SensitiveData = val]
         /\ bucketInfos' = [bucketInfos EXCEPT ![i] = binfo'[i]]
         /\ bpc' = [bpc EXCEPT ![i] = "done"]
         /\ bwg' = bwg - 1
         /\ UNCHANGED berr

\* defer ticker.Stop(): leaving the poll loop ends worker i's ticker and
\* timer, so no tick is pending and no time is counted any more
batchStopTicker(i) ==
  /\ btick' = [btick EXCEPT ![i] = FALSE]
  /\ belapsed' = [belapsed EXCEPT ![i] = 0]

batchGetCallerIdentity(i) ==
  /\ UNCHANGED <<scannerVars, utilVars>>
  /\ UNCHANGED bcompleted
  /\ bpc[i] = "identity"
  /\ \E resp \in IdentityResponses :
       IF resp.err # Nil
         THEN /\ batchReturnToWorker(i, FALSE,
                   Errorf("failed to retrieve account ID: ", resp.err))
              /\ UNCHANGED bjob
         ELSE /\ bjob' = [bjob EXCEPT ![i] =
                   <<"s3-audit-">> \o BatchBuckets[i] \o <<"-", "unix">>]
              /\ bpc' = [bpc EXCEPT ![i] = "create"]
              /\ UNCHANGED <<bwg, binfo, berr, bucketInfos>>
  /\ UNCHANGED <<mainPc, spawned, belapsed, btick, report>>

batchCreateClassificationJob(i) ==
  /\ UNCHANGED <<scannerVars, utilVars>>
  /\ UNCHANGED bcompleted
  /\ bpc[i] = "create"
  /\ \E resp \in {[err |-> ProviderErr, JobId |-> <<>>],
                  [err |-> Nil, JobId |-> <<"job-", ToString(i)>>]} :
       IF resp.err # Nil
         THEN /\ batchReturnToWorker(i, FALSE,
                   Errorf("failed to create Macie classification job: ", resp.err))
              /\ UNCHANGED <<bjob, belapsed, btick>>
         ELSE /\ bjob' = [bjob EXCEPT ![i] = resp.JobId]
              /\ belapsed' = [belapsed EXCEPT ![i] = 0]
              /\ btick' = [btick EXCEPT ![i] = FALSE]
              /\ bpc' = [bpc EXCEPT ![i] = "poll"]
              /\ UNCHANGED <<bwg, binfo, berr, bucketInfos>>
  /\ UNCHANGED <<mainPc, spawned, report>>

\* the polls of a worker that follow one another a ticker period apart
MaxPromptPolls == 2

\* worker i's clock moves on by one ticker period; after MaxPromptPolls
\* periods the worker is held up (a slow call, a goroutine that is not
\* scheduled) until one period before the deadline, and the ticker drops
\* the ticks it cannot deliver
batchAdvance(i) ==
  /\ UNCHANGED <<scannerVars, utilVars>>
  /\ UNCHANGED bcompleted
  /\ bpc[i] = "poll"
  /\ belapsed[i] < BatchTimeoutMinutes * SecondsPerMinute + MaxOverrun * TickerPeriod
  /\ belapsed' = [belapsed EXCEPT ![i] =
       IF /\ @ >= MaxPromptPolls * TickerPeriod
          /\ @ < BatchTimeoutMinutes * SecondsPerMinute - TickerPeriod
         THEN BatchTimeoutMinutes * SecondsPerMinute - TickerPeriod
         ELSE @ + TickerPeriod]
  /\ btick' = [btick EXCEPT ![i] = TRUE]
  /\ UNCHANGED <<mainPc, spawned, bwg, bpc, binfo, berr, bjob, bucketInfos,
                 report>>

\* the statuses the poll loop of main.go treats as a failed job
batchStatusFailed(st) ==
  st = JobStatusUserPaused \/ st = JobStatusCancelled \/ st = JobStatusPaused

\* select, case <-timeout
batchPollTimeout(i) ==
  /\ UNCHANGED <<scannerVars, utilVars>>
  /\ UNCHANGED bcompleted
  /\ bpc[i] = "poll"
  /\ belapsed[i] >= BatchTimeoutMinutes * SecondsPerMinute
  /\ batchReturnToWorker(i, FALSE,
       Errorf("Macie job timed out. Job ID: ", bjob[i]))
  /\ batchStopTicker(i)
  /\ UNCHANGED <<mainPc, spawned, bjob, report>>

\* select, case <-ticker.C.  On Complete the break statement leaves the
\* select statement only, so the for loop goes round again.
batchPollTick(i) ==
  /\ UNCHANGED <<scannerVars, utilVars>>
  /\ bpc[i] = "poll"
  /\ btick[i]
  /\ \E resp \in DescribeResponses :
       IF resp.err # Nil
         THEN /\ batchReturnToWorker(i, FALSE,
                   Errorf("failed to describe Macie classification job: ", resp.err))
              /\ batchStopTicker(i)
              /\ UNCHANGED bcompleted
         ELSE IF resp.JobStatus = JobStatusComplete
           THEN /\ btick' = [btick EXCEPT ![i] = FALSE]
                /\ bcompleted' = [bcompleted EXCEPT ![i] = TRUE]
                /\ UNCHANGED <<bpc, bwg, binfo, berr, bucketInfos, belapsed>>
           ELSE IF batchStatusFailed(resp.JobStatus)
             THEN /\ batchReturnToWorker(i, FALSE,
                       Errorf("Macie job did not complete successfully. Status: ",
                              <<resp.JobStatus>>))
                  /\ batchStopTicker(i)
                  /\ UNCHANGED bcompleted
             ELSE /\ btick' = [btick EXCEPT ![i] = FALSE]
                  /\ UNCHANGED <<bpc, bwg, binfo, berr, bucketInfos, belapsed,
                                 bcompleted>>
  /\ UNCHANGED <<mainPc, spawned, bjob, report>>

\* =========================================== single calls of the helpers
\* a flag of the public-access-block configuration: unset, true or false
PabFlags == {{}, {TRUE}, {FALSE}}

UtilPabResponses ==
  {[err |-> ProviderErr, config |-> {}],
   [err |-> Nil, config |-> {}]}
    \cup {[err |-> Nil, config |-> {PabConfig(a, b, c, d)}] :
            a \in PabFlags, b \in PabFlags, c \in PabFlags, d \in PabFlags}

UtilAclResponses ==
  AclResponses
    \cup {[err |-> Nil, Grants |-> <<Grant({LogDeliveryURI})>>],
          [err |-> Nil, Grants |-> <<Grant({AllUsersURI}), Grant({LogDeliveryURI})>>]}

UtilLocationResponses ==
  LocationResponses \cup {[err |-> Nil, LocationConstraint |-> "ap-southeast-2"]}

\* the longest listing of buckets
MaxListed == 2

\* what the ListBuckets call of the S3 client answers
UtilListResponses ==
  {[err |-> ProviderErr, Buckets |-> <<>>]}
    \cup {[err |-> Nil, Buckets |-> s] :
            s \in UNION {[1..n -> [Name : BucketNames]] : n \in 0..MaxListed}}

UtilEncryptionResponses ==
  EncryptionResponses
    \cup {[err |-> Nil, Rules |-> <<"AES256">>],
          [err |-> Nil, Rules |-> <<"AES256", "aws:kms">>]}

UtilVersioningResponses ==
  VersioningResponses
    \cup {[err |-> Nil, Status |-> "enabled"],
          [err |-> Nil, Status |-> "Disabled"]}

\* MACIE_JOB_TIMEOUT_MINUTES: {} is unset, {v} is set to the characters v
UtilEnvValues ==
  EnvValues
    \cup {<<"6", "0">>, <<"4", "0">>, <<"+", "5">>, <<" ", "5">>,
          <<"1", ".", "5">>, <<"6", "0", "m">>, <<"-">>}

UtilEnv == {{}} \cup {{v} : v \in UtilEnvValues}

UtilInit ==
  /\ utilOp = "none"
  /\ utilArg = {}
  /\ utilRet = {}

CallGetBucketRegion ==
  /\ UNCHANGED <<scannerVars, batchVars>>
  /\ \E loc \in UtilLocationResponses :
       /\ utilOp' = "GetBucketRegion"
       /\ utilArg' = loc
       /\ utilRet' = GetBucketRegion(loc)

CallListBuckets ==
  /\ UNCHANGED <<scannerVars, batchVars>>
  /\ \E list \in UtilListResponses, locs \in [BucketNames -> UtilLocationResponses] :
       /\ utilOp' = "ListBuckets"
       /\ utilArg' = [list |-> list, locs |-> locs]
       /\ utilRet' = ListBuckets(list, locs)

\* acl is what GetBucketAcl answers if it is called
CallIsBucketPublic ==
  /\ UNCHANGED <<scannerVars, batchVars>>
  /\ \E pab \in UtilPabResponses, acl \in UtilAclResponses :
       /\ utilOp' = "IsBucketPublic"
       /\ utilArg' = [pab |-> pab, acl |-> acl]
       /\ utilRet' = IsBucketPublic(pab, acl)

CallGetBucketEncryption ==
  /\ UNCHANGED <<scannerVars, batchVars>>
  /\ \E enc \in UtilEncryptionResponses :
       /\ utilOp' = "GetBucketEncryption"
       /\ utilArg' = enc
       /\ utilRet' = GetBucketEncryption(enc)

CallGetBucketVersioning ==
  /\ UNCHANGED <<scannerVars, batchVars>>
  /\ \E ver \in UtilVersioningResponses :
       /\ utilOp' = "GetBucketVersioning"
       /\ utilArg' = ver
       /\ utilRet' = GetBucketVersioning(ver)

CallGetMacieTimeout ==
  /\ UNCHANGED <<scannerVars, batchVars>>
  /\ \E env \in UtilEnv :
       /\ utilOp' = "GetMacieTimeout"
       /\ utilArg' = env
       /\ utilRet' = GetMacieTimeout(Getenv(env))

\* ---------------------- the single-file interactive program (part_001)
\* the poll loop of checkSensitiveData: polls holds the answers of the
\* DescribeClassificationJob calls made before the 40-minute timeout fires
RECURSIVE singlePollLoop(_, _, _)
singlePollLoop(polls, k, jobId) ==
  IF k > Len(polls)
    THEN [completed |-> FALSE, val |-> FALSE,
          err |-> Errorf("Error: Macie job timed out after 40 minutes. Job ID: ", jobId)]
    ELSE IF polls[k].err # Nil
      THEN [completed |-> FALSE, val |-> FALSE,
            err |-> Errorf("Error: failed to describe Macie classification job: ",
                           polls[k].err)]
      ELSE IF polls[k].JobStatus = JobStatusComplete
        THEN [completed |-> TRUE, val |-> FALSE, err |-> Nil]
        ELSE IF \/ polls[k].JobStatus = JobStatusUserPaused
                \/ polls[k].JobStatus = JobStatusCancelled
                \/ polls[k].JobStatus = JobStatusPaused
          THEN [completed |-> FALSE, val |-> FALSE, err |-> Nil]
          ELSE singlePollLoop(polls, k + 1, jobId)

\* checkSensitiveData of the single-file program: what it returns
singleCheckSensitiveData(m) ==
  IF m.identity.err # Nil
    THEN [val |-> FALSE,
          err |-> Errorf("Error: failed to retrieve account ID: ", m.identity.err)]
    ELSE IF m.create.err # Nil
      THEN [val |-> FALSE,
            err |-> Errorf("Error: failed to create Macie classification job: ",
                           m.create.err)]
      ELSE LET loop == singlePollLoop(m.polls, 1, m.create.JobId)
           IN IF ~loop.completed
                THEN [val |-> loop.val, err |-> loop.err]
                ELSE IF m.list.err # Nil
                  THEN [val |-> FALSE,
                        err |-> Errorf("Error: failed to list Macie findings: ",
                                       m.list.err)]
                  ELSE IF Len(m.list.FindingIds) = 0
                    THEN [val |-> FALSE, err |-> Nil]
                    ELSE IF m.get.err # Nil
                      THEN [val |-> FALSE,
                            err |-> Errorf("Error: failed to get findings details: ",
                                           m.get.err)]
                      ELSE [val |-> TRUE, err |-> Nil]

\* the goroutine of auditBucket for the bucket the user selected: the
\* records printBucketReport printed and the error logged
singleAuditBucket(in) ==
  LET region == getBucketRegion(in.location)
      public == isBucketPublic(in.pab, in.acl)
      encryption == getBucketEncryption(in.encryption)
      versioning == getBucketVersioning(in.versioning)
      sensitive == singleCheckSensitiveData(in.macie)
  IN IF region.err # Nil
       THEN [report |-> <<>>,
             err |-> Errorf("Error: Unable to get region for bucket: ", region.err)]
       ELSE IF public.err # Nil
         THEN [report |-> <<>>,
               err |-> Errorf("Error: Unable to check public access for bucket: ",
                              public.err)]
         ELSE IF encryption.err # Nil
           THEN [report |-> <<>>,
                 err |-> Errorf("Error: Unable to get encryption for bucket: ",
                                encryption.err)]
           ELSE IF versioning.err # Nil
             THEN [report |-> <<>>,
                   err |-> Errorf("Error: Unable to get versioning status for bucket: ",
                                  versioning.err)]
             ELSE IF sensitive.err # Nil
               THEN [report |-> <<>>,
                     err |-> Errorf("Error: Unable to check sensitive data for bucket: ",
                                    sensitive.err)]
               ELSE [report |-> <<[Name |-> in.name,
                                   Region |-> region.val,
                                   IsPublic |-> public.val,
                                   Encryption |-> encryption.val,
                                   VersioningStatus |-> versioning.val,
                                   SensitiveData |-> sensitive.val]>>,
                     err |-> Nil]

\* the answers of the polls made before the timeout fires
SinglePollScripts ==
  {<<>>,
   <<[err |-> Nil, JobStatus |-> JobStatusRunning]>>,
   <<[err |-> Nil, JobStatus |-> JobStatusComplete]>>,
   <<[err |-> Nil, JobStatus |-> JobStatusRunning],
     [err |-> Nil, JobStatus |-> JobStatusComplete]>>,
   <<[err |-> Nil, JobStatus |-> JobStatusUserPaused]>>,
   <<[err |-> Nil, JobStatus |-> JobStatusRunning],
     [err |-> Nil, JobStatus |-> JobStatusCancelled]>>,
   <<[err |-> Nil, JobStatus |-> JobStatusIdle],
     [err |-> Nil, JobStatus |-> JobStatusPaused]>>,
   <<[err |-> Nil, JobStatus |-> JobStatusRunning],
     [err |-> ProviderErr, JobStatus |-> ""]>>}

\* what the classification service and STS answer during one audit
SingleMacieRuns ==
  [identity : IdentityResponses,
   create : {[err |-> ProviderErr, JobId |-> <<>>],
             [err |-> Nil, JobId |-> NewJobId(1)]},
   polls : SinglePollScripts,
   list : {[err |-> ProviderErr, FindingIds |-> <<>>],
           [err |-> Nil, FindingIds |-> <<>>],
           [err |-> Nil, FindingIds |-> <<"f1", "f2">>]},
   get : {[err |-> ProviderErr, Findings |-> <<>>],
          [err |-> Nil, Findings |-> <<"f1">>]}]

\* the inputs of one audit: a bucket whose four basic checks succeed, or
\* whose versioning check fails
SingleAudits ==
  [name : {"public-bucket"},
   location : {[err |-> Nil, LocationConstraint |-> ""]},
   pab : {[err |-> ProviderErr, config |-> {}]},
   acl : {[err |-> Nil, Grants |-> <<Grant({AllUsersURI})>>]},
   encryption : {[err |-> Nil, Rules |-> <<"AES256">>]},
   versioning : {[err |-> ProviderErr, Status |-> ""],
                 [err |-> Nil, Status |-> "Enabled"]},
   macie : SingleMacieRuns]

CallSingleAuditBucket ==
  /\ UNCHANGED <<scannerVars, batchVars>>
  /\ \E in \in SingleAudits :
       /\ utilOp' = "auditBucket"
       /\ utilArg' = in
       /\ utilRet' = singleAuditBucket(in)

\* ------------------------------------------------------- specifications
ScannerIdle ==
  /\ ScannerInit
  /\ environ = <<>>
  /\ remote = AnyRemote
  /\ requests = <<>>

\* the user asks for one audit; the remote services may answer anything
Init ==
  /\ ScannerInit
  /\ remote = AnyRemote
  /\ requests \in {<<b>> : b \in BucketNames}
  /\ BatchInit
  /\ UtilInit

Next ==
  \/ \E b \in BucketNames : AuditBucket(b)
  \/ AuditBucketReturn
  \/ CheckRegion
  \/ CheckPublic
  \/ CheckEncryption
  \/ CheckVersioning
  \/ GetCallerIdentity
  \/ CreateClassificationJob
  \/ Advance
  \/ PollTimeout
  \/ PollTick
  \/ ListFindings
  \/ GetFindings

Spec == Init /\ [][Next]_vars

\* one audit with a timeout of one or two minutes, of none, or a negative one
InitLive ==
  /\ ScannerInit
  /\ environ \in {<<"1">>, <<"2">>, <<"0">>, <<"-", "1">>}
  /\ remote = AnyRemote
  /\ requests = <<"public-bucket">>
  /\ BatchInit
  /\ UtilInit

\* Every remote call returns and the goroutines are scheduled: a step that
\* can be taken is taken.  The channel of time.After stays ready once it has
\* fired and select chooses among the ready cases at random, so the timeout
\* case is taken at last.
SpecLive == InitLive /\ [][Next]_vars /\ WF_vars(Next) /\ WF_vars(PollTimeout)

InitBatch ==
  /\ ScannerIdle
  /\ BatchInit
  /\ UtilInit

NextBatch ==
  \/ Spawn
  \/ auditBucketsReturn
  \/ printReport
  \/ \E i \in Workers :
       \/ batchCheckRegion(i)
       \/ batchCheckPublic(i)
       \/ batchCheckEncryption(i)
       \/ batchCheckVersioning(i)
       \/ batchGetCallerIdentity(i)
       \/ batchCreateClassificationJob(i)
       \/ batchAdvance(i)
       \/ batchPollTimeout(i)
       \/ batchPollTick(i)

SpecBatch == InitBatch /\ [][NextBatch]_vars

\* ---------------------------- repeated audits against fixed remote services
\* How many audits of the same bucket the user asks for.
MaxAudits == 2

The(S) == CHOOSE x \in S : TRUE

Singletons(S) == {{x} : x \in S}

\* the job's status at each poll of an audit; the last entry stays
DescribeScripts ==
  {<<{[err |-> ProviderErr, JobStatus |-> ""]}>>,
   <<{[err |-> Nil, JobStatus |-> JobStatusComplete]}>>,
   <<{[err |-> Nil, JobStatus |-> JobStatusRunning]},
     {[err |-> Nil, JobStatus |-> JobStatusComplete]}>>,
   <<{[err |-> Nil, JobStatus |-> JobStatusRunning]}>>,
   <<{[err |-> Nil, JobStatus |-> JobStatusRunning]},
     {[err |-> Nil, JobStatus |-> JobStatusCancelled]}>>}

\* remote services that answer each operation in one fixed way
FixedRemotes ==
  [location : Singletons({[err |-> ProviderErr, LocationConstraint |-> ""],
                          [err |-> Nil, LocationConstraint |-> ""]}),
   pab : Singletons({[err |-> ProviderErr, config |-> {}],
                     [err |-> Nil, config |-> {PabConfig({TRUE}, {TRUE}, {TRUE}, {TRUE})}],
                     [err |-> Nil, config |-> {PabConfig({TRUE}, {TRUE}, {FALSE}, {TRUE})}]}),
   acl : Singletons({[err |-> ProviderErr, Grants |-> <<>>],
                     [err |-> Nil, Grants |-> <<>>],
                     [err |-> Nil, Grants |-> <<Grant({LogDeliveryURI}), Grant({AllUsersURI})>>]}),
   encryption : Singletons(EncryptionResponses),
   versioning : Singletons({[err |-> ProviderErr, Status |-> ""],
                            [err |-> Nil, Status |-> "Enabled"],
                            [err |-> Nil, Status |-> ""]}),
   identity : Singletons(IdentityResponses),
   create : Singletons({ProviderErr, Nil}),
   describe : DescribeScripts,
   list : Singletons(ListFindingsResponses),
   get : Singletons(GetFindingsResponses)]

\* the services every operation of which succeeds at once
QuietRemote ==
  [location |-> {[err |-> Nil, LocationConstraint |-> ""]},
   pab |-> {[err |-> Nil, config |-> {PabConfig({TRUE}, {TRUE}, {TRUE}, {TRUE})}]},
   acl |-> {[err |-> Nil, Grants |-> <<>>]},
   encryption |-> {[err |-> Nil, Rules |-> <<>>]},
   versioning |-> {[err |-> Nil, Status |-> ""]},
   identity |-> {[err |-> Nil, Account |-> "123456789012"]},
   create |-> {Nil},
   describe |-> <<{[err |-> Nil, JobStatus |-> JobStatusComplete]}>>,
   list |-> {[err |-> Nil, FindingIds |-> <<>>]},
   get |-> {[err |-> Nil, Findings |-> <<>>]}]

\* the job of script d can be seen to complete
CanComplete(d) ==
  \E k \in 1..Len(d) :
    /\ The(d[k]).err = Nil /\ The(d[k]).JobStatus = JobStatusComplete
    /\ \A j \in 1..(k - 1) :
         The(d[j]).err = Nil /\ ~StatusFailed(The(d[j]).JobStatus)

\* An operation the audit cannot reach, because an earlier one fails, is
\* never asked, so its answer is left as in QuietRemote.
Reachable(r) ==
  LET e1 == GetBucketRegion(The(r.location)).err # Nil
      e2 == e1 \/ IsBucketPublic(The(r.pab), The(r.acl)).err # Nil
      e3 == e2 \/ GetBucketEncryption(The(r.encryption)).err # Nil
      e4 == e3 \/ GetBucketVersioning(The(r.versioning)).err # Nil
      e5 == e4 \/ The(r.identity).err # Nil
      e6 == e5 \/ The(r.create) # Nil
      e7 == e6 \/ ~CanComplete(r.describe)
      e8 == e7 \/ The(r.list).err # Nil \/ The(r.list).FindingIds = <<>>
  IN /\ e1 => r.pab = QuietRemote.pab
     /\ (e1 \/ PabBlocksAll(The(r.pab))) => r.acl = QuietRemote.acl
     /\ e2 => r.encryption = QuietRemote.encryption
     /\ e3 => r.versioning = QuietRemote.versioning
     /\ e4 => r.identity = QuietRemote.identity
     /\ e5 => r.create = QuietRemote.create
     /\ e6 => r.describe = QuietRemote.describe
     /\ e7 => r.list = QuietRemote.list
     /\ e8 => r.get = QuietRemote.get

\* the services of a public bucket without encryption configuration and
\* without versioning status, whose job completes with two findings; every
\* operation has its answer, asked or not
EndToEndRemotes ==
  {r \in FixedRemotes :
     /\ r.location = QuietRemote.location
     /\ r.pab \in {{[err |-> ProviderErr, config |-> {}]},
                   {[err |-> Nil, config |-> {PabConfig({TRUE}, {TRUE}, {FALSE}, {TRUE})}]}}
     /\ r.acl = {[err |-> Nil, Grants |-> <<Grant({LogDeliveryURI}), Grant({AllUsersURI})>>]}
     /\ r.encryption \in {{[err |-> ProviderErr, Rules |-> <<>>]},
                          {[err |-> Nil, Rules |-> <<>>]}}
     /\ r.versioning = QuietRemote.versioning
     /\ r.identity = QuietRemote.identity
     /\ r.create = QuietRemote.create
     /\ CanComplete(r.describe)
     /\ r.list = {[err |-> Nil, FindingIds |-> <<"f1", "f2">>]}
     /\ r.get = {[err |-> Nil, Findings |-> <<"f1">>]}}

\* the user asks MaxAudits times for the same bucket; each operation of the
\* remote services answers in one fixed way, the same in every audit
InitRepeat ==
  /\ ScannerInit
  /\ environ \in {<<"1">>, <<"2">>}
  /\ remote \in {r \in FixedRemotes : Reachable(r)} \cup EndToEndRemotes
  /\ requests = [i \in 1..MaxAudits |-> "public-bucket"]
  /\ BatchInit
  /\ UtilInit

SpecRepeat == InitRepeat /\ [][Next]_vars

InitUtils ==
  /\ ScannerIdle
  /\ BatchInit
  /\ UtilInit

NextUtils ==
  \/ CallGetBucketRegion
  \/ CallIsBucketPublic
  \/ CallGetBucketEncryption
  \/ CallGetBucketVersioning
  \/ CallGetMacieTimeout
  \/ CallListBuckets
  \/ CallSingleAuditBucket

SpecUtils == InitUtils /\ [][NextUtils]_vars


\* =============================================================== claims
\* checkSensitiveData has returned exactly (val, err)
Returned(val, err) == csdRet = {[val |-> val, err |-> err]}

\* checkSensitiveData has returned false and some error
ReturnedFailure == csdRet # {} /\ \A r \in csdRet : r.val = FALSE /\ r.err # Nil

\* CreateClassificationJob succeeded and jobID holds the id it returned
JobCreated ==
  /\ sent.create # {}
  /\ jobs >= 1
  /\ jobID = NewJobId(jobs)

\* the latest poll observed status st
Observed(st) == \E d \in lastDescribe : d.err = Nil /\ d.JobStatus = st

\* C1: when a poll observes UserPaused, Cancelled or Paused, checkSensitiveData
\* has returned (false, non-nil error) in that very step, the worker is done,
\* and ListFindings and GetFindings have not been and are never called.
C1_FailedStatusEndsCheck ==
  (Observed(JobStatusUserPaused) \/ Observed(JobStatusCancelled)
     \/ Observed(JobStatusPaused))
    => /\ ReturnedFailure
       /\ pc = "done"
       /\ calls["ListFindings"] = 0
       /\ calls["GetFindings"] = 0
       /\ listResp = {}
       /\ getResp = {}

C1_Witness ==
  /\ Observed(JobStatusCancelled)
  /\ calls["DescribeClassificationJob"] >= 2
  /\ Returned(FALSE, <<"Macie classification job failed">>)
  /\ callerPc = "returned"

\* C2: for a job still Running when a (positive) configured timeout has
\* passed, checkSensitiveData returns (false, timeout error) and the error
\* carries the jobId that CreateClassificationJob returned.
C2_TimeoutErrorCarriesJobId ==
  (/\ pc = "done"
   /\ JobCreated
   /\ deadline > startTime
   /\ now >= deadline
   /\ calls["DescribeClassificationJob"] >= 1
   /\ Observed(JobStatusRunning))
    => /\ ReturnedFailure
       /\ \A r \in csdRet : Contains(r.err, jobID)

\* C3: when a poll observed Complete and ListFindings returned no finding id,
\* checkSensitiveData has returned (false, nil) and GetFindings is not called.
C3_NoFindingsReturnsFalse ==
  \A l \in listResp :
    (l.err = Nil /\ Len(l.FindingIds) = 0)
      => /\ Observed(JobStatusComplete)
         /\ Returned(FALSE, Nil)
         /\ pc = "done"
         /\ calls["GetFindings"] = 0
         /\ getResp = {}

C3_Witness ==
  /\ calls["DescribeClassificationJob"] = 1
  /\ Observed(JobStatusComplete)
  /\ listResp = {[err |-> Nil, FindingIds |-> <<>>]}
  /\ Returned(FALSE, Nil)
  /\ Len(printed) = 1
  /\ printed[1].SensitiveData = FALSE

\* C4 as stated: after Complete and a non-empty list of finding ids,
\* checkSensitiveData returns (true, nil) whatever GetFindings answers.
C4_AnyGetFindingsOutcomeReturnsTrue ==
  \A l \in listResp :
    (l.err = Nil /\ Len(l.FindingIds) >= 1 /\ pc = "done")
      => Returned(TRUE, Nil)

\* C4 as amended: after Complete and a non-empty list of finding ids,
\* checkSensitiveData returns (true, nil) whenever GetFindings succeeds,
\* whatever details it returns (an empty list included); when GetFindings
\* errors it returns (false, non-nil error).
C4_FindingsReturnTrueUnlessGetFails ==
  \A l \in listResp :
    (l.err = Nil /\ Len(l.FindingIds) >= 1 /\ pc = "done")
      => /\ Observed(JobStatusComplete)
         /\ getResp # {}
         /\ \A g \in getResp :
              /\ g.err = Nil => Returned(TRUE, Nil)
              /\ g.err # Nil => ReturnedFailure

C4_Witness ==
  /\ listResp = {[err |-> Nil, FindingIds |-> <<"f1">>]}
  /\ getResp = {[err |-> Nil, Findings |-> <<>>]}
  /\ Returned(TRUE, Nil)
  /\ Len(printed) = 1
  /\ printed[1].SensitiveData = TRUE

\* C5: when a check of AuditBucket failed, AuditBucket returns a non-nil
\* error; it returns nil only when a report was printed.
C5_FailedAuditReturnsError ==
  callerPc = "returned"
    => /\ auditErr # Nil => retErr # Nil
       /\ retErr = Nil => Len(printed) = 1

\* the four basic checks and the sensitive-data check all succeeded
FiveChecksSucceeded ==
  /\ bucketInfo.Region # ""
  /\ calls["GetPublicAccessBlock"] = 1
  /\ bucketInfo.Encryption # ""
  /\ bucketInfo.VersioningStatus # ""
  /\ csdRet # {}
  /\ \A r \in csdRet : r.err = Nil

C6_State ==
  /\ Len(printed) <= 1
  /\ auditErr # Nil
       => /\ pc = "done"
          /\ bucketInfo.AuditDuration = 0
          /\ printed = <<>>
  /\ Len(printed) = 1 <=> (pc = "done" /\ FiveChecksSucceeded)
  /\ Len(printed) = 1 => printed[1] = bucketInfo /\ bucketInfo.AuditDuration > 0

C6_Step ==
  auditErr # Nil
    => /\ calls' = calls
       /\ printed' = printed
       /\ bucketInfo' = bucketInfo
       /\ auditErr' = auditErr

\* C6: the first failing check ends the audit: afterwards no remote call is
\* issued, AuditDuration stays unset and nothing is printed; the report is
\* printed exactly once, and exactly when all five checks succeeded.
C6_FirstFailureEndsAudit == []C6_State /\ [][C6_Step]_vars

C6_Witness ==
  /\ auditErr = <<"Error: Unable to get encryption for bucket: ", "AccessDenied">>
  /\ calls["GetBucketLocation"] = 1
  /\ calls["GetBucketVersioning"] = 0
  /\ calls["GetCallerIdentity"] = 0
  /\ callerPc = "returned"
  /\ printed = <<>>

\* C7: AuditBucket returns only after its worker has finished, and after it
\* has returned no remote call is issued and nothing is printed.
C7_ReturnAfterWorker ==
  /\ [](callerPc = "returned" => pc = "done" /\ wg = 0)
  /\ [][callerPc = "returned"
          => calls' = calls /\ printed' = printed /\ bucketInfo' = bucketInfo]_vars

C7_Witness ==
  /\ callerPc = "returned"
  /\ pc = "done"
  /\ calls["GetFindings"] = 1
  /\ Len(printed) = 1

\* everything worker i owns: its locals, its timer and slot i of the result
batchLocal(i) ==
  <<bpc[i], binfo[i], berr[i], belapsed[i], btick[i], bjob[i], bucketInfos[i],
    bcompleted[i]>>

\* some step of worker i
batchWorkerStep(i) ==
  \/ batchCheckRegion(i)
  \/ batchCheckPublic(i)
  \/ batchCheckEncryption(i)
  \/ batchCheckVersioning(i)
  \/ batchGetCallerIdentity(i)
  \/ batchCreateClassificationJob(i)
  \/ batchAdvance(i)
  \/ batchPollTimeout(i)
  \/ batchPollTick(i)

C8_State ==
  /\ \A j \in Workers :
       bpc[j] \notin {"unborn", "done"} => ENABLED batchWorkerStep(j)
  /\ (mainPc = "loop" /\ spawned < NBuckets) => ENABLED Spawn

C8_Step ==
  \A i \in Workers, j \in Workers :
    (i # j /\ batchLocal(i)' # batchLocal(i)) => batchLocal(j)' = batchLocal(j)

C9_BatchWaitsForAll ==
  /\ [](mainPc # "loop" => bwg = 0 /\ \A i \in Workers : bpc[i] = "done")
  /\ [][mainPc # "loop" => bucketInfos' = bucketInfos /\ bpc' = bpc]_vars

C9_Witness ==
  /\ mainPc = "returned"
  /\ berr[NBuckets] = <<"Unable to get versioning status for bucket: ", "AccessDenied">>
  /\ berr[1] = <<"Unable to check sensitive data for bucket: ",
                 "Macie job did not complete successfully. Status: ", "PAUSED">>

C10_State ==
  \A d \in lastDescribe :
    d.err # Nil
      => /\ ReturnedFailure
         /\ \A r \in csdRet : Contains(r.err, d.err)
         /\ pc = "done"
         /\ calls["ListFindings"] = 0
         /\ calls["GetFindings"] = 0

\* C10: when a DescribeClassificationJob call errors, checkSensitiveData has
\* returned (false, error wrapping the describe error) in that step, and no
\* Describe, ListFindings or GetFindings call is issued afterwards.
C10_DescribeErrorFailsFast ==
  /\ []C10_State
  /\ [][(\E d \in lastDescribe : d.err # Nil) => calls' = calls]_vars

C10_Witness ==
  /\ lastDescribe = {[err |-> ProviderErr, JobStatus |-> ""]}
  /\ calls["DescribeClassificationJob"] = 3
  /\ Returned(FALSE, <<"Error: failed to get job status: ", "AccessDenied">>)
  /\ callerPc = "returned"

\* CreateClassificationJob was called and did not answer with a job id
CreateRejected ==
  /\ calls["CreateClassificationJob"] >= 1
  /\ ~JobCreated

\* C11: when CreateClassificationJob is rejected, checkSensitiveData has
\* returned (false, error wrapping the provider's error) in that step; the
\* submission is not repeated, no Describe, ListFindings or GetFindings call
\* is ever issued, and the audit prints no report.
C11_RejectedSubmissionIsFatal ==
  CreateRejected
    => /\ ReturnedFailure
       /\ \A r \in csdRet : Contains(r.err, ProviderErr)
       /\ pc = "done"
       /\ calls["CreateClassificationJob"] = 1
       /\ calls["DescribeClassificationJob"] = 0
       /\ calls["ListFindings"] = 0
       /\ calls["GetFindings"] = 0
       /\ sent.describe = {} /\ sent.list = {} /\ sent.get = {}
       /\ printed = <<>>
       /\ bucketInfo.AuditDuration = 0

C11_Witness ==
  /\ CreateRejected
  /\ Returned(FALSE, <<"Error: failed to create Macie classification job: ",
                       "AccessDenied">>)
  /\ auditErr # Nil
  /\ callerPc = "returned"

\* GetCallerIdentity was called and did not answer with an account
IdentityLookupFailed ==
  /\ calls["GetCallerIdentity"] >= 1
  /\ ~\E resp \in IdentityResponses : resp.err = Nil /\ identity = {resp.Account}

\* C12: when GetCallerIdentity fails, checkSensitiveData has returned
\* (false, non-nil error) in that step and CreateClassificationJob is never
\* called for that audit.
C12_IdentityFailureCreatesNoJob ==
  IdentityLookupFailed
    => /\ ReturnedFailure
       /\ pc = "done"
       /\ calls["CreateClassificationJob"] = 0
       /\ sent.create = {}
       /\ printed = <<>>

C12_Witness ==
  /\ IdentityLookupFailed
  /\ Returned(FALSE, <<"Error: failed to retrieve account ID: ", "AccessDenied">>)
  /\ calls["GetBucketVersioning"] = 1
  /\ callerPc = "returned"

\* the public-access-block call succeeded with all four flags true
AllFourTrue(pab) ==
  /\ pab.err = Nil
  /\ \E c \in pab.config :
       /\ c.BlockPublicAcls = {TRUE}
       /\ c.BlockPublicPolicy = {TRUE}
       /\ c.IgnorePublicAcls = {TRUE}
       /\ c.RestrictPublicBuckets = {TRUE}

\* the ACL holds a grant to the AllUsers or the AuthenticatedUsers group
HasPublicGrant(acl) ==
  \E i \in 1..Len(acl.Grants) : \E g \in acl.Grants[i].Grantee :
    g.URI \cap {AllUsersURI, AuthenticatedUsersURI} # {}

\* C13: when the public-access-block call succeeds with all four flags true,
\* IsBucketPublic returns (false, nil) and GetBucketAcl is not called,
\* whatever the ACL holds.
C13_BlockedBucketIsNotPublic ==
  (utilOp = "IsBucketPublic" /\ AllFourTrue(utilArg.pab))
    => utilRet = [val |-> FALSE, err |-> Nil, aclCalled |-> FALSE]

C13_Witness ==
  /\ utilOp = "IsBucketPublic"
  /\ AllFourTrue(utilArg.pab)
  /\ HasPublicGrant(utilArg.acl)
  /\ utilRet.val = FALSE
  /\ ~utilRet.aclCalled

\* C14 as stated: with an ACL grant to AllUsers or AuthenticatedUsers,
\* IsBucketPublic returns true.
C14_PublicGrantMeansPublic ==
  (utilOp = "IsBucketPublic" /\ HasPublicGrant(utilArg.acl))
    => utilRet.val = TRUE

\* C14 as amended: with an ACL grant to AllUsers or AuthenticatedUsers,
\* IsBucketPublic returns (true, nil) unless the public-access-block call
\* succeeded with all four flags true; then it returns (false, nil) without
\* reading the ACL.
C14_PublicGrantMeansPublicUnlessBlocked ==
  (utilOp = "IsBucketPublic" /\ HasPublicGrant(utilArg.acl))
    => IF AllFourTrue(utilArg.pab)
         THEN utilRet = [val |-> FALSE, err |-> Nil, aclCalled |-> FALSE]
         ELSE utilRet = [val |-> TRUE, err |-> Nil, aclCalled |-> TRUE]

C14_Witness ==
  /\ utilOp = "IsBucketPublic"
  /\ utilArg.pab.err = Nil
  /\ utilArg.pab.config = {PabConfig({FALSE}, {FALSE}, {FALSE}, {FALSE})}
  /\ utilArg.acl.Grants = <<Grant({AuthenticatedUsersURI})>>
  /\ utilRet = [val |-> TRUE, err |-> Nil, aclCalled |-> TRUE]

\* C15: when the public-access-block call errors or returns no configuration,
\* GetBucketAcl is still called; the result is true exactly when some grant
\* targets AllUsers or AuthenticatedUsers, and an error is returned exactly
\* when GetBucketAcl errors, with the value false.
C15_InconclusiveBlockFallsBackToAcl ==
  (/\ utilOp = "IsBucketPublic"
   /\ (utilArg.pab.err # Nil \/ utilArg.pab.config = {}))
    => /\ utilRet.aclCalled
       /\ utilArg.acl.err = Nil
            => /\ utilRet.err = Nil
               /\ utilRet.val = HasPublicGrant(utilArg.acl)
       /\ utilArg.acl.err # Nil
            => /\ utilRet.err = utilArg.acl.err
               /\ utilRet.val = FALSE

C15_Witness ==
  /\ utilOp = "IsBucketPublic"
  /\ utilArg.pab.err # Nil
  /\ utilArg.acl.err = Nil
  /\ HasPublicGrant(utilArg.acl)
  /\ utilRet = [val |-> TRUE, err |-> Nil, aclCalled |-> TRUE]

\* C16: the encryption check never ends an audit: once GetBucketEncryption
\* has been called the record holds an Encryption value ("Not Enabled" for a
\* provider error) and the worker has not given up over the encryption check.
C16_EncryptionErrorIsNotFatal ==
  calls["GetBucketEncryption"] >= 1
    => /\ bucketInfo.Encryption # ""
       /\ auditErr = Nil
            \/ Head(auditErr) # "Error: Unable to get encryption for bucket: "

\* C17: GetBucketEncryption returns the first rule's algorithm when there is
\* a rule, ("Not Enabled", nil) when the call succeeds with no rule, and
\* "Not Enabled" together with the provider's error when the call errors.
C17_EncryptionResult ==
  utilOp = "GetBucketEncryption"
    => /\ (utilArg.err = Nil /\ Len(utilArg.Rules) >= 1)
            => utilRet = [val |-> Head(utilArg.Rules), err |-> Nil]
       /\ (utilArg.err = Nil /\ Len(utilArg.Rules) = 0)
            => utilRet = [val |-> "Not Enabled", err |-> Nil]
       /\ utilArg.err # Nil
            => utilRet = [val |-> "Not Enabled", err |-> utilArg.err]

C17_Witness ==
  /\ utilOp = "GetBucketEncryption"
  /\ utilArg = [err |-> ProviderErr, Rules |-> <<>>]
  /\ utilRet = [val |-> "Not Enabled", err |-> ProviderErr]

\* C18: GetBucketVersioning returns ("Enabled", nil) exactly when the call
\* succeeds with the status "Enabled"; every other successful status gives
\* ("Disabled", nil); a provider error gives "Unknown" with that error.
C18_VersioningResult ==
  utilOp = "GetBucketVersioning"
    => /\ utilRet = [val |-> "Enabled", err |-> Nil]
            <=> (utilArg.err = Nil /\ utilArg.Status = "Enabled")
       /\ (utilArg.err = Nil /\ utilArg.Status # "Enabled")
            => utilRet = [val |-> "Disabled", err |-> Nil]
       /\ utilArg.err # Nil
            => utilRet = [val |-> "Unknown", err |-> utilArg.err]

C18_Witness ==
  /\ utilOp = "GetBucketVersioning"
  /\ utilArg = [err |-> Nil, Status |-> "Suspended"]
  /\ utilRet = [val |-> "Disabled", err |-> Nil]

\* C19: GetBucketRegion returns "us-east-1" for an empty location constraint,
\* the location constraint itself otherwise, and on a provider error that
\* error with an empty region.
C19_RegionResult ==
  utilOp = "GetBucketRegion"
    => /\ (utilArg.err = Nil /\ utilArg.LocationConstraint = "")
            => utilRet = [val |-> "us-east-1", err |-> Nil]
       /\ (utilArg.err = Nil /\ utilArg.LocationConstraint # "")
            => utilRet = [val |-> utilArg.LocationConstraint, err |-> Nil]
       /\ utilArg.err # Nil
            => utilRet = [val |-> "", err |-> utilArg.err]

C19_Witness ==
  /\ utilOp = "GetBucketRegion"
  /\ utilArg.err = ProviderErr
  /\ utilRet = [val |-> "", err |-> ProviderErr]

\* the values of MACIE_JOB_TIMEOUT_MINUTES that are not integers
NotAnInteger ==
  {<<"a", "b", "c">>, <<" ", "5">>, <<"1", ".", "5">>, <<"6", "0", "m">>, <<"-">>}

\* the minutes each integer value stands for
MinutesOf(v) ==
  CASE v = <<"1">> -> 1
    [] v = <<"2">> -> 2
    [] v = <<"0">> -> 0
    [] v = <<"-", "1">> -> 0 - 1
    [] v = <<"6", "0">> -> 60
    [] v = <<"4", "0">> -> 40
    [] v = <<"+", "5">> -> 5

\* C20: GetMacieTimeout returns 40 minutes when MACIE_JOB_TIMEOUT_MINUTES is
\* unset, empty or not an integer, and N minutes when it holds the integer N.
C20_TimeoutFromEnvironment ==
  utilOp = "GetMacieTimeout"
    => /\ utilArg = {} => utilRet = 40 * 60
       /\ \A v \in utilArg :
            IF v = <<>> \/ v \in NotAnInteger
              THEN utilRet = 40 * 60
              ELSE utilRet = MinutesOf(v) * 60

C20_Witness ==
  /\ utilOp = "GetMacieTimeout"
  /\ utilArg = {<<"6", "0">>}
  /\ utilRet = 60 * 60

\* C21: the classification timeout is always positive: a value of
\* MACIE_JOB_TIMEOUT_MINUTES that is not a positive integer ("0" and negative
\* integers included) gives the 40-minute default.
C21_TimeoutIsPositive ==
  utilOp = "GetMacieTimeout"
    => /\ utilRet > 0
       /\ \A v \in utilArg :
            v \in NotAnInteger \cup {<<>>, <<"0">>, <<"-", "1">>}
              => utilRet = 40 * 60

\* the i-th audit that returned printed a report
Produced(i) ==
  history[i].reports > (IF i = 1 THEN 0 ELSE history[i - 1].reports)

\* the i-th audit that returned was ended by the classification timeout
TimedOut(i) ==
  \E r \in history[i].csdRet :
    r.err = <<"timeout waiting for Macie classification job completion">>

\* two records agree in every field but AuditDuration
SameButDuration(a, b) ==
  /\ a.Name = b.Name
  /\ a.Region = b.Region
  /\ a.IsPublic = b.IsPublic
  /\ a.Encryption = b.Encryption
  /\ a.VersioningStatus = b.VersioningStatus
  /\ a.SensitiveData = b.SensitiveData

\* C22 as stated: two sequential audits of the same bucket against remote
\* services that answer the same way end alike: both print a report or
\* neither does, the reports agree in every field but AuditDuration, and the
\* same sequence of remote operations is issued.
C22_SequentialAuditsAgree ==
  \A i \in 1..Len(history), j \in 1..Len(history) :
    /\ Produced(i) = Produced(j)
    /\ SameButDuration(history[i].bucketInfo, history[j].bucketInfo)
    /\ history[i].trace = history[j].trace

\* C22 as amended: whenever both audits print a report the reports agree in
\* every field but AuditDuration; when neither audit is ended by the
\* classification timeout, both print a report or neither does and both issue
\* the same sequence of remote operations.
C22_SequentialAuditsAgreeUnlessTimedOut ==
  \A i \in 1..Len(history), j \in 1..Len(history) :
    /\ (Produced(i) /\ Produced(j))
         => SameButDuration(history[i].bucketInfo, history[j].bucketInfo)
    /\ (~TimedOut(i) /\ ~TimedOut(j))
         => /\ Produced(i) = Produced(j)
            /\ SameButDuration(history[i].bucketInfo, history[j].bucketInfo)
            /\ history[i].trace = history[j].trace

C22_Witness ==
  /\ Len(history) = 2
  /\ Produced(1) /\ Produced(2)
  /\ history[1].bucketInfo.SensitiveData
  /\ history[1].bucketInfo.AuditDuration # history[2].bucketInfo.AuditDuration
  /\ history[1].trace = history[2].trace
  /\ Len(printed) = 2

\* the remote services of the end-to-end scenario: public-access-block
\* absent or not restrictive, an ACL grant to AllUsers, no encryption
\* configuration (no rule, or the provider's error for a missing
\* configuration), no versioning status, a job that completes, two findings
EndToEndScenario(r) ==
  /\ The(r.location).err = Nil
  /\ ~AllFourTrue(The(r.pab))
  /\ \E i \in 1..Len(The(r.acl).Grants) :
       The(r.acl).Grants[i] = Grant({AllUsersURI})
  /\ (The(r.encryption).err # Nil \/ The(r.encryption).Rules = <<>>)
  /\ The(r.versioning) = [err |-> Nil, Status |-> ""]
  /\ The(r.identity).err = Nil
  /\ The(r.create) = Nil
  /\ CanComplete(r.describe)
  /\ The(r.list) = [err |-> Nil, FindingIds |-> <<"f1", "f2">>]
  /\ The(r.get).err = Nil

\* the audit under way, or just returned, was ended by the timeout
TimedOutNow ==
  \E r \in csdRet :
    r.err = <<"timeout waiting for Macie classification job completion">>

\* C23: in the end-to-end scenario an audit that the timeout does not end
\* prints a report with IsPublic = true, Encryption = "Not Enabled",
\* VersioningStatus = "Disabled" and SensitiveData = true.
C23_EndToEndReport ==
  (EndToEndScenario(remote) /\ callerPc = "returned" /\ ~TimedOutNow)
    => /\ printed # <<>>
       /\ printed[Len(printed)] = bucketInfo
       /\ bucketInfo.AuditDuration > 0
       /\ bucketInfo.IsPublic = TRUE
       /\ bucketInfo.Encryption = "Not Enabled"
       /\ bucketInfo.VersioningStatus = "Disabled"
       /\ bucketInfo.SensitiveData = TRUE

\* the audits that returned before the current one started
EarlierAudits ==
  IF callerPc = "returned" THEN 1..(Len(history) - 1) ELSE 1..Len(history)

\* the audit polled its job
Polled(h) == \E k \in 1..Len(h.trace) : h.trace[k] = "DescribeClassificationJob"

\* C24: an audit calls CreateClassificationJob at most once, and exactly once
\* when the four basic checks and the identity lookup succeeded; an audit
\* that polls or lists findings has created its own job, and the job id it
\* uses is not the job id of any earlier audit.
C24_OneNewJobPerAudit ==
  /\ calls["CreateClassificationJob"] <= 1
  /\ (identity # {} /\ pc # "create") => calls["CreateClassificationJob"] = 1
  /\ calls["CreateClassificationJob"] = 1
       => /\ identity # {}
          /\ calls["GetBucketLocation"] = 1
          /\ calls["GetPublicAccessBlock"] = 1
          /\ calls["GetBucketEncryption"] = 1
          /\ calls["GetBucketVersioning"] = 1
  /\ (calls["DescribeClassificationJob"] + calls["ListFindings"] >= 1)
       => calls["CreateClassificationJob"] = 1
  /\ \A id \in sent.describe \cup sent.list :
       \A i \in EarlierAudits : id # history[i].jobID
  /\ \A i \in 1..Len(history), j \in 1..Len(history) :
       (i # j /\ Polled(history[i]) /\ Polled(history[j]))
         => history[i].jobID # history[j].jobID

C24_Witness ==
  /\ Len(history) = 2
  /\ jobs = 2
  /\ history[1].jobID = NewJobId(1)
  /\ Polled(history[1])
  /\ history[2].jobID = NewJobId(2)
  /\ sent.describe = {NewJobId(2)}
  /\ sent.list = {NewJobId(2)}

\* C25: the job submitted is one-time and names exactly the audited bucket
\* under the account GetCallerIdentity returned; every DescribeClassificationJob
\* and ListFindings call uses the job id CreateClassificationJob returned,
\* never the request name the client made up.
C25_JobScopeAndId ==
  /\ \A inp \in sent.create :
       /\ inp.JobType = "ONE_TIME"
       /\ Len(inp.BucketDefinitions) = 1
       /\ inp.BucketDefinitions[1].Buckets = <<bucketInfo.Name>>
       /\ identity = {inp.BucketDefinitions[1].AccountId}
       /\ \E resp \in IdentityResponses :
            resp.err = Nil /\ resp.Account = inp.BucketDefinitions[1].AccountId
  /\ \A id \in sent.describe \cup sent.list :
       /\ jobs >= 1
       /\ id = NewJobId(jobs)
       /\ \A inp \in sent.create : id # inp.Name

C25_Witness ==
  /\ calls["DescribeClassificationJob"] >= 2
  /\ sent.describe = {NewJobId(1)}
  /\ sent.list = {NewJobId(1)}
  /\ \E inp \in sent.create :
       /\ inp.Name = <<"s3-audit-", "public-bucket", "-", "0">>
       /\ inp.BucketDefinitions = <<[AccountId |-> "123456789012",
                                     Buckets |-> <<"public-bucket">>]>>

\* the record is complete: every basic check ran once and succeeded, and
\* checkSensitiveData returned the value stored in SensitiveData
RecordComplete ==
  /\ bucketInfo.Region # ""
  /\ bucketInfo.Encryption # ""
  /\ bucketInfo.VersioningStatus \in {"Enabled", "Disabled"}
  /\ calls["GetBucketLocation"] = 1
  /\ calls["GetPublicAccessBlock"] = 1
  /\ bucketInfo.IsPublic => calls["GetBucketAcl"] = 1
  /\ calls["GetBucketEncryption"] = 1
  /\ calls["GetBucketVersioning"] = 1
  /\ auditErr = Nil
  /\ csdRet = {[val |-> bucketInfo.SensitiveData, err |-> Nil]}

\* C26: when AuditDuration is set, Region, IsPublic, Encryption,
\* VersioningStatus and SensitiveData have been assigned from checks that
\* succeeded and the record printed is that record; once AuditDuration is
\* set no field of the record is written and nothing more is printed.
C26_RecordCompleteAndFrozen ==
  /\ [](bucketInfo.AuditDuration # 0
          => RecordComplete /\ printed = <<bucketInfo>>)
  /\ []((\E r \in csdRet : r.err = Nil) => bucketInfo.AuditDuration # 0)
  /\ [][bucketInfo.AuditDuration # 0
          => bucketInfo' = bucketInfo /\ printed' = printed]_vars

C26_Witness ==
  /\ callerPc = "returned"
  /\ bucketInfo.AuditDuration = 2 * TickerPeriod
  /\ bucketInfo.IsPublic
  /\ bucketInfo.Encryption = "aws:kms"
  /\ bucketInfo.VersioningStatus = "Enabled"
  /\ bucketInfo.SensitiveData
  /\ printed = <<bucketInfo>>

\* C27: SensitiveData is assigned (together with AuditDuration) only after a
\* poll observed Complete and ListFindings returned without error; while the
\* job is Running, after the timeout, and after UserPaused, Cancelled or
\* Paused it keeps its initial value false and AuditDuration stays unset.
C27_SensitiveDataOnlyAfterComplete ==
  /\ (bucketInfo.AuditDuration # 0 \/ bucketInfo.SensitiveData)
       => /\ Observed(JobStatusComplete)
          /\ calls["ListFindings"] = 1
          /\ \E l \in listResp : l.err = Nil
          /\ \E r \in csdRet : r.err = Nil /\ r.val = bucketInfo.SensitiveData
  /\ (\/ Observed(JobStatusRunning)
      \/ Observed(JobStatusUserPaused)
      \/ Observed(JobStatusCancelled)
      \/ Observed(JobStatusPaused)
      \/ TimedOutNow
      \/ pc = "poll")
       => /\ ~bucketInfo.SensitiveData
          /\ bucketInfo.AuditDuration = 0

C27_Witness ==
  /\ bucketInfo.SensitiveData
  /\ Observed(JobStatusComplete)
  /\ calls["DescribeClassificationJob"] >= 2
  /\ \E l \in listResp : l.err = Nil /\ l.FindingIds # <<>>
  /\ pc = "done"

\* C28: within one AuditBucket call every remote operation but
\* DescribeClassificationJob is invoked at most once, and after a failed
\* DescribeClassificationJob call, or any other failed call, no remote
\* operation is invoked again.
C28_NothingRetried ==
  /\ [](\A op \in Operations \ {"DescribeClassificationJob"} : calls[op] <= 1)
  /\ [][((\E d \in lastDescribe : d.err # Nil) \/ auditErr # Nil)
          => calls' = calls]_vars

C28_Witness ==
  /\ calls["DescribeClassificationJob"] >= 2
  /\ \E d \in lastDescribe : d.err # Nil
  /\ \A op \in Operations \ {"DescribeClassificationJob", "ListFindings",
                             "GetFindings"} : calls[op] = 1
  /\ callerPc = "returned"

\* C29: once checkSensitiveData has returned the timeout error the worker is
\* done, no findings were or are retrieved, and no operation of any remote
\* service is invoked and no request is sent from then on; the job count of
\* the classification service stays as it was.
C29_NoCallAfterTimeout ==
  /\ [](TimedOutNow
          => /\ pc = "done"
             /\ calls["ListFindings"] = 0
             /\ calls["GetFindings"] = 0
             /\ listResp = {}
             /\ getResp = {})
  /\ [][TimedOutNow
          => calls' = calls /\ sent' = sent /\ jobs' = jobs]_vars

C29_Witness ==
  /\ TimedOutNow
  /\ callerPc = "returned"
  /\ Observed(JobStatusRunning)
  /\ calls["DescribeClassificationJob"] >= 1
  /\ jobs = 1

\* C30: ListBuckets returns an error exactly when the bucket-listing call
\* failed; otherwise it returns one entry per listed bucket, in listing order,
\* each with the bucket's name and the region of its own lookup, which is
\* "unknown" when that lookup failed, whatever the lookups of other buckets did.
C30_ListBucketsKeepsEveryBucket ==
  utilOp = "ListBuckets"
    => LET list == utilArg.list
           locs == utilArg.locs
       IN /\ utilRet.err # Nil <=> list.err # Nil
          /\ list.err # Nil => utilRet = [val |-> <<>>, err |-> list.err]
          /\ list.err = Nil
               => /\ Len(utilRet.val) = Len(list.Buckets)
                  /\ \A i \in 1..Len(list.Buckets) :
                       LET loc == locs[list.Buckets[i].Name]
                       IN /\ utilRet.val[i].Name = list.Buckets[i].Name
                          /\ loc.err # Nil => utilRet.val[i].Region = "unknown"
                          /\ (loc.err = Nil /\ loc.LocationConstraint = "")
                               => utilRet.val[i].Region = "us-east-1"
                          /\ (loc.err = Nil /\ loc.LocationConstraint # "")
                               => utilRet.val[i].Region = loc.LocationConstraint

C30_Witness ==
  /\ utilOp = "ListBuckets"
  /\ utilRet = [val |-> <<[Name |-> "public-bucket", Region |-> "unknown"],
                          [Name |-> "my-first-bucket", Region |-> "ap-southeast-2"]>>,
                err |-> Nil]

\* C31: in checkSensitiveData of main.go, once a DescribeClassificationJob
\* call has reported Complete the worker has left the polling loop, no
\* further DescribeClassificationJob call is issued, and the operation does
\* not end in the timeout error.
C31_CompleteEndsBatchPolling ==
  /\ [](\A i \in Workers :
          bcompleted[i]
            => /\ bpc[i] # "poll"
               /\ berr[i] # <<"Unable to check sensitive data for bucket: ",
                              "Macie job timed out. Job ID: ">> \o bjob[i])
  /\ [][\A i \in Workers : bcompleted[i] => ~batchPollTick(i)]_vars

\* C32: in Scanner.checkSensitiveData no DescribeClassificationJob call is
\* started once the deadline has passed: with the timeout and a tick both
\* pending the operation returns the timeout error.
C32_TimeoutBeatsTick ==
  [][(pc = "poll" /\ now >= deadline)
       => /\ calls'["DescribeClassificationJob"] = calls["DescribeClassificationJob"]
          /\ (tickPending /\ pc' # "poll") => TimedOutNow']_vars

\* a poll has seen the job in a status that ends polling, or has failed
PollingEndedByStatus ==
  \E d \in lastDescribe :
    d.err # Nil \/ d.JobStatus = JobStatusComplete \/ StatusFailed(d.JobStatus)

\* C33: every AuditBucket call returns, whatever statuses the polls report;
\* an audit whose job was created and whose polls never saw Complete,
\* UserPaused, Cancelled or Paused and never failed has ended in the timeout.
C33_AuditBucketReturns ==
  /\ (callerPc = "waiting") ~> (callerPc = "returned")
  /\ []((callerPc = "returned" /\ JobCreated /\ ~PollingEndedByStatus)
          => TimedOutNow /\ pc = "done")

C33_Witness ==
  /\ callerPc = "returned"
  /\ TimedOutNow
  /\ calls["DescribeClassificationJob"] >= 2
  /\ Observed(JobStatusRunning)
  /\ environ = <<"1">>

\* the place of a remote operation in the order of the audit
OrderOf(op) ==
  CASE op = "GetBucketLocation" -> 1
    [] op = "GetPublicAccessBlock" -> 2
    [] op = "GetBucketAcl" -> 3
    [] op = "GetBucketEncryption" -> 4
    [] op = "GetBucketVersioning" -> 5
    [] op = "GetCallerIdentity" -> 6
    [] op = "CreateClassificationJob" -> 7
    [] op = "DescribeClassificationJob" -> 8
    [] op = "ListFindings" -> 9
    [] op = "GetFindings" -> 10

\* operation b may directly follow operation a: it is the next one (the ACL
\* is read only when the public-access block does not settle the answer), or
\* another poll
MayFollow(a, b) ==
  \/ OrderOf(b) = OrderOf(a) + 1
  \/ a = "GetPublicAccessBlock" /\ b = "GetBucketEncryption"
  \/ a = "DescribeClassificationJob" /\ b = "DescribeClassificationJob"

\* the four basic checks have run and their results are in the record
BasicChecksDone ==
  /\ calls["GetBucketLocation"] = 1
  /\ calls["GetPublicAccessBlock"] = 1
  /\ calls["GetBucketEncryption"] = 1
  /\ calls["GetBucketVersioning"] = 1
  /\ bucketInfo.Region # ""
  /\ bucketInfo.Encryption # ""
  /\ bucketInfo.VersioningStatus # ""

\* C34: the remote operations of one audit are issued in the order region,
\* public access, encryption, versioning, caller identity, job creation,
\* polls, findings listing, findings details; after a failed operation none
\* is issued; the sensitive-data check starts only when the four basic checks
\* are done, and its failure leaves their results in the record.
C34_OperationsInOrder ==
  /\ [](/\ trace # <<>> => trace[1] = "GetBucketLocation"
        /\ \A k \in 1..(Len(trace) - 1) : MayFollow(trace[k], trace[k + 1])
        /\ (\E k \in 1..Len(trace) : OrderOf(trace[k]) >= 6) => BasicChecksDone
        /\ ReturnedFailure => BasicChecksDone)
  /\ [][auditErr # Nil => trace' = trace]_vars

C34_Witness ==
  /\ trace = <<"GetBucketLocation", "GetPublicAccessBlock", "GetBucketAcl",
               "GetBucketEncryption", "GetBucketVersioning", "GetCallerIdentity",
               "CreateClassificationJob", "DescribeClassificationJob",
               "DescribeClassificationJob", "ListFindings", "GetFindings">>
  /\ ReturnedFailure
  /\ callerPc = "returned"

\* the statuses that end polling
EndingStatuses ==
  {JobStatusComplete, JobStatusUserPaused, JobStatusCancelled, JobStatusPaused}

\* C35: after a poll that saw a status other than Complete, UserPaused,
\* Cancelled and Paused the client is still in the poll loop, where time can
\* pass, a tick can be taken or the timeout can fire, unless the timeout has
\* ended the operation; findings are listed only after Complete was seen and
\* the job-failed error is returned only after UserPaused, Cancelled or Paused.
C35_OnlyFourStatusesEndPolling ==
  /\ \A d \in lastDescribe :
       (d.err = Nil /\ d.JobStatus \notin EndingStatuses)
         => /\ pc = "poll" \/ (pc = "done" /\ TimedOutNow)
            /\ calls["ListFindings"] = 0
  /\ pc = "poll" => ENABLED (Advance \/ PollTick \/ PollTimeout)
  /\ calls["ListFindings"] >= 1 => Observed(JobStatusComplete)
  /\ (\E r \in csdRet : r.err = <<"Macie classification job failed">>)
       => \E d \in lastDescribe :
            d.err = Nil /\ d.JobStatus \in EndingStatuses \ {JobStatusComplete}

C35_Witness ==
  /\ Observed(JobStatusIdle)
  /\ pc = "poll"
  /\ calls["DescribeClassificationJob"] >= 2
  /\ tickPending

\* ListFindings or GetFindings answered an error
FindingsCallFailed ==
  (\E l \in listResp : l.err # Nil) \/ (\E g \in getResp : g.err # Nil)

\* C36: when ListFindings or GetFindings errors, checkSensitiveData has
\* returned (false, error wrapping that error), also when ListFindings had
\* returned finding ids, and the audit prints no report and leaves
\* SensitiveData and AuditDuration unassigned.
C36_FindingsErrorMeansNoReport ==
  /\ [](FindingsCallFailed
          => /\ Observed(JobStatusComplete)
             /\ ReturnedFailure
             /\ \A r \in csdRet :
                  \/ \E l \in listResp : l.err # Nil /\ Contains(r.err, l.err)
                  \/ \E g \in getResp : g.err # Nil /\ Contains(r.err, g.err)
             /\ pc = "done"
             /\ auditErr # Nil
             /\ printed = <<>>
             /\ bucketInfo.AuditDuration = 0
             /\ ~bucketInfo.SensitiveData)
  /\ [][FindingsCallFailed => printed' = printed /\ bucketInfo' = bucketInfo]_vars

C36_Witness ==
  /\ \E l \in listResp : l.err = Nil /\ l.FindingIds = <<"f1", "f2">>
  /\ \E g \in getResp : g.err # Nil
  /\ callerPc = "returned"
  /\ printed = <<>>

\* the public-access-block call succeeded with a configuration that lacks
\* at least one of the four flags
SomeFlagMissing(pab) ==
  /\ pab.err = Nil
  /\ \E c \in pab.config :
       {} \in {c.BlockPublicAcls, c.BlockPublicPolicy, c.IgnorePublicAcls,
               c.RestrictPublicBuckets}

\* C37: when one of the four public-access-block flags is unset,
\* IsBucketPublic does not take the short circuit but reads the ACL; without
\* a grant to AllUsers or AuthenticatedUsers it returns (false, nil), and the
\* only error it can return is the error of GetBucketAcl.
C37_MissingFlagCountsAsFalse ==
  (utilOp = "IsBucketPublic" /\ SomeFlagMissing(utilArg.pab))
    => /\ utilRet.aclCalled
       /\ utilRet.err = utilArg.acl.err
       /\ (utilArg.acl.err = Nil /\ ~HasPublicGrant(utilArg.acl))
            => utilRet = [val |-> FALSE, err |-> Nil, aclCalled |-> TRUE]
       /\ (utilArg.acl.err = Nil /\ HasPublicGrant(utilArg.acl))
            => utilRet = [val |-> TRUE, err |-> Nil, aclCalled |-> TRUE]

C37_Witness ==
  /\ utilOp = "IsBucketPublic"
  /\ utilArg.pab = [err |-> Nil,
                    config |-> {PabConfig({TRUE}, {}, {TRUE}, {TRUE})}]
  /\ utilArg.acl = [err |-> Nil, Grants |-> <<>>]
  /\ utilRet = [val |-> FALSE, err |-> Nil, aclCalled |-> TRUE]

\* worker i finished with all five checks succeeded
FiveChecksOk(i) == bpc[i] = "done" /\ berr[i] = Nil

\* slot i holds the complete record of bucket i
SlotComplete(i) ==
  /\ bucketInfos[i] = binfo[i]
  /\ bucketInfos[i].Name = BatchBuckets[i]
  /\ bucketInfos[i].Region # ""
  /\ bucketInfos[i].Encryption # ""
  /\ bucketInfos[i].VersioningStatus # ""

\* the report holds the complete slots, and only those, in input order
ReportInInputOrder ==
  /\ Len(report) = Cardinality({i \in Workers : FiveChecksOk(i)})
  /\ \E f \in [1..Len(report) -> Workers] :
       /\ \A k \in 1..Len(report) :
            FiveChecksOk(f[k]) /\ report[k] = bucketInfos[f[k]]
       /\ \A k \in 1..Len(report), l \in 1..Len(report) : k < l => f[k] < f[l]

SingleJobFailed(in) ==
  /\ in.macie.identity.err = Nil
  /\ in.macie.create.err = Nil
  /\ Len(in.macie.polls) > 0
  /\ in.macie.polls[Len(in.macie.polls)].err = Nil
  /\ in.macie.polls[Len(in.macie.polls)].JobStatus \in
       {JobStatusUserPaused, JobStatusCancelled, JobStatusPaused}

\* C39: in the single-file interactive variant a job that ends UserPaused,
\* Cancelled or Paused yields a non-nil error from checkSensitiveData, so
\* the audit prints no report for the bucket (in particular none showing
\* Sensitive Data: false)
C39_FailedJobIsNotReported ==
  (utilOp = "auditBucket" /\ SingleJobFailed(utilArg)) =>
    /\ singleCheckSensitiveData(utilArg.macie).err # Nil
    /\ \A k \in 1..Len(utilRet.report) : utilRet.report[k].SensitiveData

====
